---------------------------- MODULE Spec2Model ----------------------------
(***************************************************************************)
(* Verification model of the ESP-01 LED matrix uploader firmware.          *)
(*                                                                         *)
(* Two sketches of the repository are modelled:                            *)
(*   - the diagnostic firmware (src/unnamed/part_004): circular error log, *)
(*     rotating upload token, single-file upload, LED playback;            *)
(*   - the FastLED firmware (src/ESP01_Enhanced_Firmware.ino): pattern     *)
(*     store under /patterns, metadata document, playback.                 *)
(*                                                                         *)
(* Strings are sequences of character codes, indexed from 0 as the Arduino *)
(* String class does.                                                      *)
(***************************************************************************)
EXTENDS Integers, Sequences, FiniteSets, TLC

\* ------------------------------------------------------------------------
\* 32-bit words.  A uint32_t that is mixed bitwise is kept as its two 16-bit
\* halves <<hi, lo>>; times and sizes are integers, and the modelled uptime
\* stays below 2^31 ms, so that no unsigned long wraps.
\* ------------------------------------------------------------------------
Pow2(n) == 2 ^ n

Half == Pow2(16)

RECURSIVE XorBits(_, _)
\* bitwise exclusive or of two naturals, bit by bit
XorBits(a, b) ==
  IF a = 0 THEN b
  ELSE IF b = 0 THEN a
  ELSE (((a % 2) + (b % 2)) % 2) + 2 * XorBits(a \div 2, b \div 2)

\* the exclusive or of two 4-bit numbers, tabulated
XorTab == [a \in 0..15 |-> [b \in 0..15 |-> XorBits(a, b)]]

\* bitwise exclusive or of two 16-bit numbers
Xor(a, b) ==
  XorTab[a % 16][b % 16]
  + 16 * XorTab[(a \div 16) % 16][(b \div 16) % 16]
  + 256 * XorTab[(a \div 256) % 16][(b \div 256) % 16]
  + 4096 * XorTab[a \div 4096][b \div 4096]

\* a ^ b
XorW(a, b) == <<Xor(a[1], b[1]), Xor(a[2], b[2])>>

\* (h << n) | (h >> (32 - n)), 0 < n < 32
Rotl32(h, n) ==
  LET hi == IF n >= 16 THEN h[2] ELSE h[1]
      lo == IF n >= 16 THEN h[1] ELSE h[2]
      m  == n % 16
  IN  IF m = 0 THEN <<hi, lo>>
      ELSE <<((hi * Pow2(m)) % Half) + (lo \div Pow2(16 - m)),
             ((lo * Pow2(m)) % Half) + (hi \div Pow2(16 - m))>>

\* h >> n, 0 < n < 16
Shr32(h, n) ==
  <<h[1] \div Pow2(n), (h[2] \div Pow2(n)) + ((h[1] % Pow2(n)) * Pow2(16 - n))>>

\* (h >> (8 * k)) & 0xFF, k in 0..3
ByteOf(h, k) ==
  IF k = 0 THEN h[2] % 256
  ELSE IF k = 1 THEN h[2] \div 256
  ELSE IF k = 2 THEN h[1] % 256
  ELSE h[1] \div 256

\* now - since on unsigned long, for since <= now
Elapsed(now, since) == now - since

Min(a, b) == IF a < b THEN a ELSE b

\* ------------------------------------------------------------------------
\* Arduino String operations (0-based indices, -1 for "not found")
\* ------------------------------------------------------------------------
StrAt(s, i) == s[i + 1]

\* String::substring(left, right)
\* (the parameters are unsigned: a negative argument is a huge one)
Substring(s, left, right) ==
  LET l  == IF left < 0 THEN Len(s) + 1 ELSE left
      r  == IF right < 0 THEN Len(s) + 1 ELSE right
      l0 == IF l > r THEN r ELSE l
      r0 == IF l > r THEN l ELSE r
      r1 == IF r0 > Len(s) THEN Len(s) ELSE r0
  IN  IF l0 >= Len(s) THEN <<>>
      ELSE SubSeq(s, l0 + 1, r1)

\* String::substring(left)
SubstringFrom(s, left) == Substring(s, left, Len(s))

StartsWithAt(s, pat, i) ==
  /\ i + Len(pat) <= Len(s)
  /\ \A k \in 1..Len(pat) : s[i + k] = pat[k]

RECURSIVE IndexOfStrFrom(_, _, _)
\* String::indexOf(pattern, from): the first match at or after from, or -1
\* (from is unsigned: a negative argument is past the end)
IndexOfStrFrom(s, pat, from) ==
  IF from < 0 \/ from >= Len(s) THEN -1
  ELSE IF StartsWithAt(s, pat, from) THEN from
  ELSE IndexOfStrFrom(s, pat, from + 1)

IndexOfStr(s, pat) == IndexOfStrFrom(s, pat, 0)

IndexOfCharFrom(s, ch, from) == IndexOfStrFrom(s, <<ch>>, from)

IndexOfChar(s, ch) == IndexOfCharFrom(s, ch, 0)

IsDigit(c) == c >= 48 /\ c <= 57

IsSpace(c) == c = 32 \/ (c >= 9 /\ c <= 13)

\* LONG_MAX of the 32-bit long
LONG_MAX == (Pow2(30) - 1) * 2 + 1

RECURSIVE ParseDigits(_, _, _)
\* the digit run of s starting at (1-based) position i, accumulated into acc,
\* saturating at LONG_MAX as strtol does
ParseDigits(s, i, acc) ==
  IF i > Len(s) \/ ~IsDigit(s[i]) THEN acc
  ELSE LET d == s[i] - 48
       IN  ParseDigits(s, i + 1,
                       IF acc > (LONG_MAX - d) \div 10 THEN LONG_MAX
                       ELSE acc * 10 + d)

RECURSIVE SkipSpaces(_, _)
SkipSpaces(s, i) ==
  IF i <= Len(s) /\ IsSpace(s[i]) THEN SkipSpaces(s, i + 1) ELSE i

\* String::toInt() == atol(): leading blanks, optional sign, digit run;
\* 0 when no number starts the string.  The result is a (signed) long.
ToInt(s) ==
  LET i0  == SkipSpaces(s, 1)
      neg == i0 <= Len(s) /\ s[i0] = 45
      sgn == i0 <= Len(s) /\ (s[i0] = 45 \/ s[i0] = 43)
      i1  == IF sgn THEN i0 + 1 ELSE i0
      mag == ParseDigits(s, i1, 0)
  IN  IF neg THEN 0 - mag ELSE mag

ToLower(c) == IF c >= 65 /\ c <= 90 THEN c + 32 ELSE c

\* String::equalsIgnoreCase
EqualsIgnoreCase(a, b) ==
  /\ Len(a) = Len(b)
  /\ \A k \in 1..Len(a) : ToLower(a[k]) = ToLower(b[k])

RECURSIVE DecDigits(_)
DecDigits(n) ==
  IF n < 10 THEN <<48 + n>> ELSE Append(DecDigits(n \div 10), 48 + (n % 10))

\* String(n) for an unsigned number
DecStr(n) == DecDigits(n)

\* ------------------------------------------------------------------------
\* Token authenticator (diagnostic firmware)
\* ------------------------------------------------------------------------
TOKEN_TTL_SECONDS == 90

\* TOKEN_SECRET = "change_this_secret"
ChangeThisSecret ==
  <<99, 104, 97, 110, 103, 101, 95, 116, 104, 105, 115, 95, 115, 101, 99, 114, 101, 116>>

HexMap == <<48, 49, 50, 51, 52, 53, 54, 55, 56, 57, 97, 98, 99, 100, 101, 102>>

\* one round of the key loop of hmac_sha1_hex
KeyRound(h, c) ==
  LET h1 == XorW(Rotl32(h, 13), <<0, c>>)
  IN  XorW(h1, Shr32(h1, 7))

\* one round of the message loop of hmac_sha1_hex
MsgRound(h, c) ==
  LET h1 == XorW(Rotl32(h, 17), <<0, c>>)
  IN  XorW(h1, Shr32(h1, 13))

RECURSIVE HashKey(_, _, _)
\* the key loop from (1-based) position i on, h the hash so far
HashKey(key, i, h) ==
  IF h \in Nat \X Nat /\ i <= Len(key)
  THEN HashKey(key, i + 1, KeyRound(h, key[i]))
  ELSE h

RECURSIVE HashMsg(_, _, _)
\* the message loop from (1-based) position i on, h the hash so far
HashMsg(msg, i, h) ==
  IF h \in Nat \X Nat /\ i <= Len(msg)
  THEN HashMsg(msg, i + 1, MsgRound(h, msg[i]))
  ELSE h

\* uint32_t hash = 0x12345678
HashInit == <<4660, 22136>>

\* the hash after the key loop over TOKEN_SECRET, the same at every call
SecretHash == HashKey(ChangeThisSecret, 1, HashInit)

\* the two hex digits of a byte
HexByte(b) == <<HexMap[(b \div 16) + 1], HexMap[(b % 16) + 1]>>

\* the 40 hex characters written to outHex: output byte i is byte i % 4 of
\* the hash, for i = 0..19
hmac_sha1_hex(key, msg) ==
  LET hash == HashMsg(msg, 1, IF key = ChangeThisSecret THEN SecretHash
                              ELSE HashKey(key, 1, HashInit))
      w    == HexByte(ByteOf(hash, 0)) \o HexByte(ByteOf(hash, 1))
              \o HexByte(ByteOf(hash, 2)) \o HexByte(ByteOf(hash, 3))
  IN  w \o w \o w \o w \o w

Colon == 58

\* verify_upload_token without the "now - ts > TOKEN_TTL_SECONDS" test
verify_upload_token_NoExpiry(tokenHdr, secretKey, nowMs) ==
  LET colon  == IndexOfChar(tokenHdr, Colon)
      hex    == Substring(tokenHdr, 0, colon)
      tsStr  == SubstringFrom(tokenHdr, colon + 1)
      ts     == ToInt(tsStr)
      nowSec == nowMs \div 1000
  IN  IF colon < 0 THEN FALSE
      ELSE IF ts = 0 THEN FALSE
      ELSE IF ts < 0 \/ nowSec < ts THEN FALSE
      ELSE EqualsIgnoreCase(hmac_sha1_hex(secretKey, tsStr), hex)

\* verify_upload_token(tokenHdr) with the configured secret at uptime nowMs
verify_upload_token(tokenHdr, secretKey, nowMs) ==
  LET colon  == IndexOfChar(tokenHdr, Colon)
      hex    == Substring(tokenHdr, 0, colon)
      tsStr  == SubstringFrom(tokenHdr, colon + 1)
      ts     == ToInt(tsStr)
      nowSec == nowMs \div 1000
  IN  IF colon < 0 THEN FALSE
      ELSE IF ts = 0 THEN FALSE
      \* a negative long converts to an unsigned long of 2^31 or more,
      \* above every nowSec
      ELSE IF ts < 0 \/ nowSec < ts THEN FALSE
      ELSE IF Elapsed(nowSec, ts) > TOKEN_TTL_SECONDS THEN FALSE
      ELSE EqualsIgnoreCase(hmac_sha1_hex(secretKey, tsStr), hex)

\* checkUploadToken without the "strlen(TOKEN_SECRET) == 0" shortcut
checkUploadToken_NoBypass(hasHdr, tokenHdr, secretKey, nowMs) ==
  IF ~hasHdr THEN FALSE
  ELSE verify_upload_token(tokenHdr, secretKey, nowMs)

\* checkUploadToken(): hasHdr is server.hasHeader("X-Upload-Token")
checkUploadToken(hasHdr, tokenHdr, secretKey, nowMs) ==
  IF Len(secretKey) = 0 THEN TRUE
  ELSE IF ~hasHdr THEN FALSE
  ELSE verify_upload_token(tokenHdr, secretKey, nowMs)

\* the uploader's side of the scheme: "digest:issued_at_seconds"
issue(secretKey, t) ==
  hmac_sha1_hex(secretKey, DecStr(t)) \o <<Colon>> \o DecStr(t)

\* ------------------------------------------------------------------------
\* State of the diagnostic firmware
\* ------------------------------------------------------------------------
VARIABLES
  millis,              \* millis(): uptime in ms (unsigned long)
  secret,              \* TOKEN_SECRET, the configured shared secret
  diag,                \* errorLog, errorLogIndex, errorLogCount, the counters
  fs,                  \* LittleFS: the blob stored as UPLOAD_FILE
  uploadFile,          \* static File uploadFile: "closed", "open", or
                       \* "detached" (open on a file removed meanwhile)
  uploadInProgress,
  uploadStartTime,
  lastUploadTime,
  lastUploadedSize,
  lastUploadedHash,
  ledPlaying,
  ledPaused,
  lastFrameTime,
  frameDelayMs,
  currentFrameIndex,
  totalFrames,
  perChunkDelays,      \* [null, vals]: the pointer and the array behind it
  perChunkDelaysCount,
  http,                \* the upload request the web server is receiving
  lastReq,             \* the request served by the last step and its response
  logHistory,          \* every entry ever passed to the log, in call order
  written,             \* the bytes the write calls stored since the last open
  uploads,             \* the number of upload requests begun so far
  env,                 \* what the surroundings of the device can do in this
                       \* run: the sets its inputs are drawn from
  fast,                \* the globals, the function statics and the flash of
                       \* ESP01_Enhanced_Firmware.ino, the FastLED sketch
  large                \* the globals that the large-pattern firmware listed
                       \* in README_OTA.md has beyond the diagnostic firmware's

ledVars ==
  <<ledPlaying, ledPaused, lastFrameTime, frameDelayMs, currentFrameIndex,
    totalFrames, perChunkDelays, perChunkDelaysCount>>

uploadVars ==
  <<fs, uploadFile, uploadInProgress, uploadStartTime, lastUploadTime,
    lastUploadedSize, lastUploadedHash, written>>

\* the globals of the diagnostic firmware
diagVars == <<millis, secret, diag, logHistory, ledVars, uploadVars>>

devVars == <<ledVars, uploadVars, http, uploads>>

vars ==
  <<millis, secret, diag, lastReq, logHistory, devVars, env, fast, large>>

\* a request: its endpoint, its X-Upload-Token header (hasHdr: whether it
\* carries one), the status code it was answered with (0: no response sent)
\* and the response body
Req(ep, hasHdr, hdr, code, body) ==
  [ep |-> ep, arg |-> "", hasHdr |-> hasHdr, hdr |-> hdr, code |-> code,
   body |-> body]

NoReq == Req("none", FALSE, <<>>, 0, <<>>)

\* no upload request is being received
Idle ==
  [phase |-> "idle", hasHdr |-> FALSE, hdr |-> <<>>, hasMeta |-> FALSE,
   meta |-> <<>>, opened |-> FALSE, short |-> FALSE, closed |-> FALSE,
   writes |-> 0, prevSize |-> 0, prevHash |-> <<>>]

NoFile == [exists |-> FALSE, data |-> <<>>]

\* surroundings that send the device nothing (sessions: how many uploads
\* they begin; blob: how many bytes they store at most)
NoEnv ==
  [times |-> {}, headers |-> {}, metas |-> {}, writes |-> {},
   startHeaps |-> {}, loopHeaps |-> {}, keeps |-> {}, crashes |-> {},
   fsOk |-> {}, resets |-> {}, actions |-> {}, delays |-> {},
   names |-> {}, tokens |-> {}, sizes |-> {}, frees |-> {},
   sessions |-> 0, blob |-> 0, bodies |-> {}]

\* largePatternMode, lastMemoryOptimization and lastMemoryCheck as the
\* large-pattern firmware declares them
LargeZero ==
  [largePatternMode |-> FALSE, lastMemoryOptimization |-> 0,
   lastMemoryCheck |-> 0]

\* ------------------------------------------------------------------------
\* State of the FastLED firmware (ESP01_Enhanced_Firmware.ino)
\* ------------------------------------------------------------------------
UPLOAD_TOKEN == "upload_token_2025"

NUM_LEDS == 64

\* a frame is NUM_LEDS * 3 bytes
FRAME_BYTES == NUM_LEDS * 3

MAX_UPLOAD_SIZE == 200 * 1024

PATTERNS_DIR == "/patterns"

PatternPath(name) == PATTERNS_DIR \o "/" \o name

\* the pattern files the clients of this model name
FastPaths == {PatternPath("a.bin"), PatternPath("b.bin")}

\* a File that is not open
NoHandle == [open |-> FALSE, path |-> ""]

\* metadataDoc holding no object: as<JsonObject>() of it is a null object,
\* on which createNestedObject and the assignments do nothing
NullDoc == [null |-> TRUE, hasPatterns |-> FALSE, patterns |-> <<>>]

\* {}
EmptyDoc == [null |-> FALSE, hasPatterns |-> FALSE, patterns |-> <<>>]

\* loadMetadata(): metadataDoc is what metadata.json holds, if it is there
\* and opens
loadMetadata(f, openOk) ==
  IF f.metadataJson.exists /\ openOk
  THEN [f EXCEPT !.metadataDoc = f.metadataJson.doc] ELSE f

\* the sketch after setup() on a flash holding files0 and metadata.json meta0
FastBoot(files0, meta0) ==
  loadMetadata(
    [playing |-> FALSE, currentPatternPath |-> "", frameDelayMs |-> 100,
     totalFrames |-> 0, currentFrame |-> 0, lastFrameMillis |-> 0,
     playbackFile |-> NoHandle, metadataDoc |-> NullDoc,
     metadataJson |-> meta0, files |-> files0,
     filename |-> "", out |-> NoHandle, written |-> <<>>, sent |-> <<>>,
     shown |-> <<>>,
     chunkName |-> "", chunkOut |-> NoHandle, totalWritten |-> 0],
    TRUE)

\* the FastLED sketch where the diagnostic firmware is what runs
FastOff ==
  FastBoot([p \in FastPaths |-> NoFile], [exists |-> FALSE, doc |-> NullDoc])

\* ------------------------------------------------------------------------
\* Error / diagnostic log (diagnostic firmware)
\* ------------------------------------------------------------------------
MAX_ERROR_LOG_ENTRIES == 20

\* an ErrorLogEntry; its timestamp and freeHeap strings are left out
EmptyEntry ==
  [level |-> "", component |-> "", operation |-> "", message |-> "",
   errorCode |-> 0]

Entry(level, component, operation, message, code) ==
  [level |-> level, component |-> component, operation |-> operation,
   message |-> message, errorCode |-> code]

\* the state the sketch starts from: ErrorLogEntry errorLog[20], all counters 0
DiagZero ==
  [errorLog      |-> [i \in 0..(MAX_ERROR_LOG_ENTRIES - 1) |-> EmptyEntry],
   errorLogIndex |-> 0,
   errorLogCount |-> 0,
   errorCount    |-> 0,
   warningCount  |-> 0,
   infoCount     |-> 0]

\* the slot selection shared by logError / logWarning / logInfo: shift the
\* array down by one when errorLogCount >= MAX_ERROR_LOG_ENTRIES, then store
\* the entry, bump errorLogCount and advance errorLogIndex
LogStore(d, e) ==
  LET full    == d.errorLogCount >= MAX_ERROR_LOG_ENTRIES
      shifted == IF full
                 THEN [i \in 0..(MAX_ERROR_LOG_ENTRIES - 1) |->
                         IF i < MAX_ERROR_LOG_ENTRIES - 1
                         THEN d.errorLog[i + 1] ELSE d.errorLog[i]]
                 ELSE d.errorLog
      idx     == IF full THEN MAX_ERROR_LOG_ENTRIES - 1 ELSE d.errorLogCount
  IN  [d EXCEPT !.errorLog      = [shifted EXCEPT ![idx] = e],
                !.errorLogCount = d.errorLogCount + 1,
                !.errorLogIndex = (idx + 1) % MAX_ERROR_LOG_ENTRIES]

logError(d, component, operation, error, errorCode) ==
  LET d1 == LogStore(d, Entry("ERROR", component, operation, error, errorCode))
  IN  [d1 EXCEPT !.errorCount = d.errorCount + 1]

logWarning(d, component, operation, message) ==
  LET d1 == LogStore(d, Entry("WARNING", component, operation, message, 0))
  IN  [d1 EXCEPT !.warningCount = d.warningCount + 1]

logInfo(d, component, operation, message) ==
  LET d1 == LogStore(d, Entry("INFO", component, operation, message, 0))
  IN  [d1 EXCEPT !.infoCount = d.infoCount + 1]

\* the log calls of setup(), in order; wifiOk is wifiManager.autoConnect()
SetupEntries(wifiOk) ==
  <<Entry("INFO", "SYSTEM", "SETUP", "started", 0),
    Entry("INFO", "FILESYSTEM", "INIT", "", 0),
    Entry("INFO", "WIFI", "SETUP", "", 0)>>
  \o (IF wifiOk THEN <<Entry("INFO", "WIFI", "CONNECT", "", 0)>>
      ELSE <<Entry("WARNING", "WIFI", "CONNECT", "", 0),
             Entry("INFO", "WIFI", "AP_MODE", "", 0)>>)
  \o <<Entry("INFO", "CONFIG", "LOAD", "", 0),
       Entry("INFO", "WEBSERVER", "SETUP", "", 0),
       Entry("INFO", "DIAGNOSTIC", "INIT", "", 0),
       Entry("INFO", "SYSTEM", "SETUP", "completed", 0)>>

RECURSIVE StoreAll(_, _)
StoreAll(d, es) ==
  IF es = <<>> THEN d ELSE StoreAll(LogStore(d, Head(es)), Tail(es))

\* diag after setup(): the counters are zeroed before the last logInfo
DiagAfterSetup(wifiOk) ==
  LET d == StoreAll(DiagZero, SetupEntries(wifiOk))
  IN  [d EXCEPT !.errorCount = 0, !.warningCount = 0, !.infoCount = 1]

\* ---- the globals as one record, so that handlers compose ----------------
\* the globals after setup() on a flash that holds fs0; sent collects the
\* responses of the handler call under way, shown the frames it put out,
\* logged what the log of the boot before held when the device restarted
Boot(fs0, secretKey, wifiOk) ==
  [millis |-> 0, secret |-> secretKey,
   diag |-> DiagAfterSetup(wifiOk), logHistory |-> SetupEntries(wifiOk),
   fs |-> fs0, uploadFile |-> "closed", uploadInProgress |-> FALSE,
   uploadStartTime |-> 0, lastUploadTime |-> 0, lastUploadedSize |-> 0,
   lastUploadedHash |-> <<>>,
   ledPlaying |-> FALSE, ledPaused |-> FALSE, lastFrameTime |-> 0,
   frameDelayMs |-> 100, currentFrameIndex |-> 0, totalFrames |-> 0,
   perChunkDelays |-> [null |-> TRUE, vals |-> <<>>],
   perChunkDelaysCount |-> 0,
   written |-> <<>>, sent |-> <<>>, restarted |-> FALSE, shown |-> <<>>,
   logged |-> <<>>]

\* the globals now
St ==
  [millis |-> millis, secret |-> secret, diag |-> diag,
   logHistory |-> logHistory,
   fs |-> fs, uploadFile |-> uploadFile, uploadInProgress |-> uploadInProgress,
   uploadStartTime |-> uploadStartTime, lastUploadTime |-> lastUploadTime,
   lastUploadedSize |-> lastUploadedSize,
   lastUploadedHash |-> lastUploadedHash,
   ledPlaying |-> ledPlaying, ledPaused |-> ledPaused,
   lastFrameTime |-> lastFrameTime, frameDelayMs |-> frameDelayMs,
   currentFrameIndex |-> currentFrameIndex, totalFrames |-> totalFrames,
   perChunkDelays |-> perChunkDelays,
   perChunkDelaysCount |-> perChunkDelaysCount,
   written |-> written, sent |-> <<>>, restarted |-> FALSE, shown |-> <<>>,
   logged |-> <<>>]

\* the globals are those of s
StateIs(s) ==
  /\ millis = s.millis /\ secret = s.secret /\ diag = s.diag
  /\ logHistory = s.logHistory
  /\ fs = s.fs /\ uploadFile = s.uploadFile
  /\ uploadInProgress = s.uploadInProgress
  /\ uploadStartTime = s.uploadStartTime /\ lastUploadTime = s.lastUploadTime
  /\ lastUploadedSize = s.lastUploadedSize
  /\ lastUploadedHash = s.lastUploadedHash
  /\ ledPlaying = s.ledPlaying /\ ledPaused = s.ledPaused
  /\ lastFrameTime = s.lastFrameTime /\ frameDelayMs = s.frameDelayMs
  /\ currentFrameIndex = s.currentFrameIndex /\ totalFrames = s.totalFrames
  /\ perChunkDelays = s.perChunkDelays
  /\ perChunkDelaysCount = s.perChunkDelaysCount
  /\ written = s.written

\* the globals become those of s
Becomes(s) ==
  /\ millis' = s.millis /\ secret' = s.secret /\ diag' = s.diag
  /\ logHistory' = s.logHistory
  /\ fs' = s.fs /\ uploadFile' = s.uploadFile
  /\ uploadInProgress' = s.uploadInProgress
  /\ uploadStartTime' = s.uploadStartTime /\ lastUploadTime' = s.lastUploadTime
  /\ lastUploadedSize' = s.lastUploadedSize
  /\ lastUploadedHash' = s.lastUploadedHash
  /\ ledPlaying' = s.ledPlaying /\ ledPaused' = s.ledPaused
  /\ lastFrameTime' = s.lastFrameTime /\ frameDelayMs' = s.frameDelayMs
  /\ currentFrameIndex' = s.currentFrameIndex /\ totalFrames' = s.totalFrames
  /\ perChunkDelays' = s.perChunkDelays
  /\ perChunkDelaysCount' = s.perChunkDelaysCount
  /\ written' = s.written

\* server.send(code, type, text)
Send(s, code, text) == [s EXCEPT !.sent = Append(@, <<code, text>>)]

\* a logError / logWarning / logInfo call made by a handler
Log(s, level, component, operation, code) ==
  [s EXCEPT
     !.diag = IF level = "ERROR"
              THEN logError(@, component, operation, "", code)
              ELSE IF level = "WARNING"
              THEN logWarning(@, component, operation, "")
              ELSE logInfo(@, component, operation, ""),
     !.logHistory = Append(@, Entry(level, component, operation, "", code))]

\* what a read of errorLog[i] with i >= MAX_ERROR_LOG_ENTRIES can yield:
\* the memory behind the array, here a zeroed entry or a foreign one
OobEntries ==
  {EmptyEntry,
   [level |-> "?", component |-> "?", operation |-> "?", message |-> "?",
    errorCode |-> 0]}

\* the entries handleErrorLog() puts into its response: errorLog[i] for
\* i < errorLogCount; oob gives the values read behind the array
ErrorLogBody(d, oob) ==
  [i \in 1..d.errorLogCount |->
     IF i - 1 < MAX_ERROR_LOG_ENTRIES THEN d.errorLog[i - 1]
     ELSE oob[i - MAX_ERROR_LOG_ENTRIES]]

SeqsOfLen(S, n) == [1..n -> S]

\* GET /error-log
handleErrorLog ==
  /\ \E oob \in SeqsOfLen(OobEntries,
                          IF diag.errorLogCount > MAX_ERROR_LOG_ENTRIES
                          THEN diag.errorLogCount - MAX_ERROR_LOG_ENTRIES
                          ELSE 0) :
        lastReq' = Req("error-log", FALSE, <<>>, 200, ErrorLogBody(diag, oob))
  /\ UNCHANGED <<millis, secret, diag, logHistory, devVars, env, fast, large>>

\* ---- the log driven directly: any sequence of log calls ----------------
MaxLogCount == 22
MaxLogErrors == 2
MaxLogWarnings == 1

\* the message texts of the calls
LogMessages == {"a", "b"}

LogErrorCall ==
  /\ diag.errorLogCount < MaxLogCount
  /\ diag.errorCount < MaxLogErrors
  /\ \E m \in LogMessages :
       /\ diag' = logError(diag, "UPLOAD", "FILE_WRITE", m, 2003)
       /\ logHistory' = Append(logHistory, Entry("ERROR", "UPLOAD", "FILE_WRITE", m, 2003))
  /\ lastReq' = NoReq
  /\ UNCHANGED <<millis, secret, devVars, env, fast, large>>

LogWarningCall ==
  /\ diag.errorLogCount < MaxLogCount
  /\ diag.warningCount < MaxLogWarnings
  /\ \E m \in LogMessages :
       /\ diag' = logWarning(diag, "UPLOAD", "FILE_CLEANUP", m)
       /\ logHistory' = Append(logHistory, Entry("WARNING", "UPLOAD", "FILE_CLEANUP", m, 0))
  /\ lastReq' = NoReq
  /\ UNCHANGED <<millis, secret, devVars, env, fast, large>>

LogInfoCall ==
  /\ diag.errorLogCount < MaxLogCount
  /\ diag' = logInfo(diag, "UPLOAD", "START", "")
  /\ logHistory' = Append(logHistory, Entry("INFO", "UPLOAD", "START", "", 0))
  /\ lastReq' = NoReq
  /\ UNCHANGED <<millis, secret, devVars, env, fast, large>>

InitLog ==
  /\ \E wifiOk \in BOOLEAN : StateIs(Boot(NoFile, ChangeThisSecret, wifiOk))
  /\ http = Idle
  /\ uploads = 0
  /\ lastReq = NoReq
  /\ env = NoEnv
  /\ fast = FastOff
  /\ large = LargeZero

NextLog ==
  \/ LogErrorCall
  \/ LogWarningCall
  \/ LogInfoCall
  \/ handleErrorLog

SpecLog == InitLog /\ [][NextLog]_vars

LastN(s, n) == IF Len(s) <= n THEN s ELSE SubSeq(s, Len(s) - n + 1, Len(s))

\* C1: once at least capacity (20) entries have been inserted, the log the
\* error-log query returns is exactly the 20 most recent entries, in
\* insertion order.
C1_QueryReturnsMostRecent ==
  (lastReq.ep = "error-log" /\ Len(logHistory) >= MAX_ERROR_LOG_ENTRIES)
    => lastReq.body = LastN(logHistory, MAX_ERROR_LOG_ENTRIES)

\* the stored array itself does hold the most recent entries in order
LogArrayHoldsMostRecent ==
  LET n == Min(Len(logHistory), MAX_ERROR_LOG_ENTRIES)
  IN  [i \in 1..n |-> diag.errorLog[i - 1]] = LastN(logHistory, MAX_ERROR_LOG_ENTRIES)

\* ------------------------------------------------------------------------
\* The token functions applied to bounded inputs
\* ------------------------------------------------------------------------
\* another secret ("k"), and no secret at all
OtherSecret == <<107>>

Secrets == {ChangeThisSecret, OtherSecret, <<>>}

IssueTimes == {1, 1000}

ToUpper(c) == IF c >= 97 /\ c <= 122 THEN c - 32 ELSE c

\* "<digest of field>:<field>" for an arbitrary timestamp field
TokenOver(secretKey, field) == hmac_sha1_hex(secretKey, field) \o <<Colon>> \o field

\* the X-Upload-Token values tried against a device configured with secretKey
TokenHeaders(secretKey) ==
  {issue(secretKey, t) : t \in IssueTimes}
  \cup {[k \in 1..Len(issue(secretKey, 1000)) |-> ToUpper(issue(secretKey, 1000)[k])]}
  \cup {issue(IF secretKey = OtherSecret THEN ChangeThisSecret ELSE OtherSecret, 1000)}
  \cup {hmac_sha1_hex(secretKey, DecStr(1000)) \o DecStr(1000)}
  \cup {<<>>, <<Colon>>}
  \cup {TokenOver(secretKey, <<48>>)}
  \cup {TokenOver(secretKey, <<45, 53>>)}
  \cup {TokenOver(secretKey, DecStr(1000) \o <<120>>)}
  \cup {SubSeq(issue(secretKey, 1000), 3, 45)}

HeadersBySecret == [s \in Secrets |-> TokenHeaders(s)]

\* uptimes (ms) around the issue times and their expiry
TokenTimePoints ==
  UNION {{t * 1000 - 1, t * 1000, (t + 50) * 1000,
          (t + TOKEN_TTL_SECONDS - 1) * 1000, (t + TOKEN_TTL_SECONDS) * 1000 + 999,
          (t + TOKEN_TTL_SECONDS + 1) * 1000, (t + 95) * 1000} : t \in IssueTimes}

TokenTimePasses ==
  /\ \E m \in TokenTimePoints : m > millis /\ millis' = m
  /\ lastReq' = NoReq
  /\ UNCHANGED <<secret, diag, logHistory, devVars, env, fast, large>>

\* verify_upload_token keeping the tokens it has accepted: the token of the
\* previous accepted call is refused
VerifyCall_SingleUse ==
  /\ \E hdr \in HeadersBySecret[secret] :
       lastReq' = Req("verify", TRUE, hdr,
                      IF /\ ~(lastReq.ep = "verify" /\ lastReq.code = 200
                              /\ lastReq.hdr = hdr)
                         /\ verify_upload_token(hdr, secret, millis)
                      THEN 200 ELSE 401,
                      <<>>)
  /\ UNCHANGED <<millis, secret, diag, logHistory, devVars, env, fast, large>>

\* verify_upload_token applied to a header
VerifyCall ==
  /\ \E hdr \in HeadersBySecret[secret] :
       lastReq' = Req("verify", TRUE, hdr,
                      IF verify_upload_token(hdr, secret, millis) THEN 200 ELSE 401,
                      <<>>)
  /\ UNCHANGED <<millis, secret, diag, logHistory, devVars, env, fast, large>>

\* checkUploadToken applied to a request with or without the header
CheckCall ==
  /\ \E hasHdr \in BOOLEAN :
       \E hdr \in (IF hasHdr THEN HeadersBySecret[secret] ELSE {<<>>}) :
         lastReq' = Req("check", hasHdr, hdr,
                        IF checkUploadToken(hasHdr, hdr, secret, millis) THEN 200 ELSE 401,
                        <<>>)
  /\ UNCHANGED <<millis, secret, diag, logHistory, devVars, env, fast, large>>

InitToken ==
  /\ \E secretKey \in Secrets : StateIs(Boot(NoFile, secretKey, TRUE))
  /\ http = Idle
  /\ uploads = 0
  /\ lastReq = NoReq
  /\ env = NoEnv
  /\ fast = FastOff
  /\ large = LargeZero

NextToken ==
  \/ TokenTimePasses
  \/ VerifyCall
  \/ CheckCall

SpecToken == InitToken /\ [][NextToken]_vars

NowSec == millis \div 1000

\* C2: a token issued for t is accepted by verify at t + TTL - 1 and rejected
\* at t + TTL + 1, for every secret and issue time.
C2_TokenWindow ==
  \A t \in IssueTimes :
    (lastReq.ep = "verify" /\ lastReq.hdr = issue(secret, t))
      => /\ (NowSec = t + TOKEN_TTL_SECONDS - 1 => lastReq.code = 200)
         /\ (NowSec = t + TOKEN_TTL_SECONDS + 1 => lastReq.code = 401)
         /\ (NowSec = t + 50 => lastReq.code = 200)
         /\ (NowSec = t + 95 => lastReq.code = 401)

C2_Witness ==
  \E t \in IssueTimes :
    /\ lastReq.ep = "verify" /\ lastReq.hdr = issue(secret, t)
    /\ NowSec = t + TOKEN_TTL_SECONDS - 1
    /\ lastReq.code = 200

\* ---- what the specification calls a well-formed token --------------------
IsHexChar(c) ==
  (c >= 48 /\ c <= 57) \/ (c >= 97 /\ c <= 102) \/ (c >= 65 /\ c <= 70)

\* "digest:timestamp": 40 hex characters, a colon, one or more decimal digits
HasTokenShape(hdr) ==
  /\ Len(hdr) >= 42
  /\ \A k \in 1..40 : IsHexChar(hdr[k])
  /\ hdr[41] = Colon
  /\ \A k \in 42..Len(hdr) : IsDigit(hdr[k])

RECURSIVE DecValue(_)
\* the number a string of decimal digits denotes
DecValue(s) ==
  IF s = <<>> THEN 0
  ELSE 10 * DecValue(SubSeq(s, 1, Len(s) - 1)) + (s[Len(s)] - 48)

\* issued_at_seconds of a well-formed token
IssuedAt(hdr) == DecValue(SubSeq(hdr, 42, Len(hdr)))

\* the digest of a well-formed token is the one the secret gives for its
\* issued_at_seconds
DigestMatches(hdr, secretKey) ==
  EqualsIgnoreCase(SubSeq(hdr, 1, 40),
                   hmac_sha1_hex(secretKey, DecStr(IssuedAt(hdr))))

\* C3: with a non-empty secret, a request is rejected when it has no token
\* header, when the token lacks the 'digest:timestamp' shape, when its
\* issued_at lies in the future or is older than the TTL, or when its digest
\* is not the one the secret gives for issued_at.
C3_FailsClosed ==
  (lastReq.ep = "check" /\ secret # <<>>)
    => LET h == lastReq.hdr
       IN  (\/ ~lastReq.hasHdr
            \/ ~HasTokenShape(h)
            \/ IssuedAt(h) > NowSec
            \/ NowSec - IssuedAt(h) > TOKEN_TTL_SECONDS
            \/ ~DigestMatches(h, secret))
           => lastReq.code = 401

\* C5: with an empty secret every request passes checkUploadToken, with or
\* without a token header and whatever the header holds.
C5_EmptySecretBypasses ==
  (lastReq.ep = "check" /\ secret = <<>>) => lastReq.code = 200

C5_Witness ==
  /\ lastReq.ep = "check" /\ secret = <<>>
  /\ ~lastReq.hasHdr
  /\ lastReq.code = 200

\* ------------------------------------------------------------------------
\* Diagnostic firmware: upload, metadata, playback
\* ------------------------------------------------------------------------
\* a < b on unsigned int; a value of 2^31 or more is kept as the negative
\* number with the same 32 bits
ULt(a, b) == IF (a < 0) = (b < 0) THEN a < b ELSE b < 0

RECURSIVE Checksum(_, _, _)
\* checksum = ((checksum << 5) + checksum) + byte over the bytes of data
\* from (1-based) position i on; c is the uint32_t as <<hi, lo>>
Checksum(data, i, c) ==
  IF c \in Nat \X Nat /\ i <= Len(data)
  THEN LET lo == c[2] * 33 + data[i]
           hi == c[1] * 33 + (lo \div Half)
       IN  Checksum(data, i + 1, <<hi % Half, lo % Half>>)
  ELSE c

\* calculateFileHash(file): the checksum in hex, zero-padded to 8 characters
calculateFileHash(data) ==
  LET c == Checksum(data, 1, <<0, 0>>)
  IN  HexByte(ByteOf(c, 3)) \o HexByte(ByteOf(c, 2))
      \o HexByte(ByteOf(c, 1)) \o HexByte(ByteOf(c, 0))

\* "frame_delay_ms":
KeyFrameDelay == <<34, 102, 114, 97, 109, 101, 95, 100, 101, 108, 97, 121, 95, 109, 115, 34, 58>>

\* "total_frames":
KeyTotalFrames == <<34, 116, 111, 116, 97, 108, 95, 102, 114, 97, 109, 101, 115, 34, 58>>

\* "per_chunk_delays":
KeyPerChunk == <<34, 112, 101, 114, 95, 99, 104, 117, 110, 107, 95, 100, 101, 108, 97, 121, 115, 34, 58>>

Comma == 44

\* the end of a scalar value that starts at start: the next ',' or else '}'
ValueEnd(metadata, start) ==
  LET e == IndexOfCharFrom(metadata, Comma, start)
  IN  IF e = -1 THEN IndexOfCharFrom(metadata, 125, start) ELSE e

RECURSIVE ParseDelays(_, _, _, _)
\* the filling loop of parseMetadata over delaysStr from (0-based) index i:
\* vals so far, lastComma as in the code
ParseDelays(delaysStr, i, lastComma, vals) ==
  IF i >= Len(delaysStr) THEN vals
  ELSE IF StrAt(delaysStr, i) = Comma \/ i = Len(delaysStr) - 1
  THEN LET endPos == IF i = Len(delaysStr) - 1 THEN i + 1 ELSE i
       IN  ParseDelays(delaysStr, i + 1, i,
                       Append(vals, ToInt(Substring(delaysStr, lastComma + 1, endPos))))
  ELSE ParseDelays(delaysStr, i + 1, lastComma, vals)

\* parseMetadata() for server.arg("metadata") = metadata; mallocOk: whether
\* malloc returns memory; garbage: what the slots the loop leaves unwritten
\* hold
parseMetadata(s, metadata, mallocOk, garbage) ==
  LET dStart == IndexOfStr(metadata, KeyFrameDelay) + 17
      dEnd   == ValueEnd(metadata, dStart)
      s1 == IF IndexOfStr(metadata, KeyFrameDelay) # -1 /\ dEnd > dStart
            THEN [s EXCEPT !.frameDelayMs = ToInt(Substring(metadata, dStart, dEnd))]
            ELSE s
      tStart == IndexOfStr(metadata, KeyTotalFrames) + 16
      tEnd   == ValueEnd(metadata, tStart)
      s2 == IF IndexOfStr(metadata, KeyTotalFrames) # -1 /\ tEnd > tStart
            THEN [s1 EXCEPT !.totalFrames = ToInt(Substring(metadata, tStart, tEnd))]
            ELSE s1
      pKey   == IndexOfStr(metadata, KeyPerChunk)
      pStart == IndexOfCharFrom(metadata, 91, pKey)
      pEnd   == IndexOfCharFrom(metadata, 93, pStart)
      delaysStr == Substring(metadata, pStart + 1, pEnd)
      count  == 1 + Cardinality({i \in 1..Len(delaysStr) : delaysStr[i] = Comma})
      filled == ParseDelays(delaysStr, 0, -1, <<>>)
      freed  == [s2 EXCEPT !.perChunkDelays = [null |-> TRUE, vals |-> <<>>],
                           !.perChunkDelaysCount =
                              IF s2.perChunkDelays.null THEN @ ELSE 0]
  IN  IF pKey = -1 THEN s2
      ELSE IF ~(pStart > 0 /\ pEnd > pStart) THEN freed
      ELSE IF ~mallocOk THEN [freed EXCEPT !.perChunkDelaysCount = count]
      ELSE [freed EXCEPT
              !.perChunkDelaysCount = count,
              !.perChunkDelays =
                 [null |-> FALSE,
                  vals |-> [k \in 1..count |->
                              IF k <= Len(filled) THEN filled[k] ELSE garbage]]]

\* LittleFS.remove(UPLOAD_FILE) succeeding: a handle open on the file stays a
\* valid File, but what is written through it reaches no stored blob
Remove(s) ==
  [s EXCEPT !.fs = NoFile,
            !.uploadFile = IF @ = "open" THEN "detached" ELSE @]

\* LittleFS.open(UPLOAD_FILE, "a"): what is stored stays
OpenForAppend(f) == [exists |-> TRUE, data |-> f.data]

\* LittleFS.open(UPLOAD_FILE, "w"): the file is created or truncated
OpenForWrite(f) == [exists |-> TRUE, data |-> <<>>]

\* uploadFile.close(), also on a handle that is not open
Close(s) == [s EXCEPT !.uploadFile = "closed"]

\* handleFileUpload(), upload.status == UPLOAD_FILE_START.  rq is the request
\* (hasHdr, hdr, hasMeta, meta); e is what the platform answers during the
\* call: heap (ESP.getFreeHeap()), removeOk, openOk, mallocOk, garbage
handleFileUpload_START(s, rq, e) ==
  LET s1 == Log([s EXCEPT !.uploadInProgress = TRUE,
                          !.uploadStartTime = s.millis],
                "INFO", "UPLOAD", "START", 0)
      s2 == IF ~s1.fs.exists THEN s1
            ELSE IF e.removeOk
            THEN Log(Remove(s1), "INFO", "UPLOAD", "FILE_CLEANUP", 0)
            ELSE Log(s1, "WARNING", "UPLOAD", "FILE_CLEANUP", 0)
      s3 == IF e.heap < 10000
            THEN Log(s2, "WARNING", "UPLOAD", "MEMORY_CHECK", 0) ELSE s2
      s4 == Log([s3 EXCEPT !.fs = OpenForWrite(@), !.uploadFile = "open",
                           !.written = <<>>],
                "INFO", "UPLOAD", "FILE_OPEN", 0)
  IN  IF e.openOk
      THEN IF rq.hasMeta
           THEN parseMetadata(Log(s4, "INFO", "UPLOAD", "METADATA", 0),
                              rq.meta, e.mallocOk, e.garbage)
           ELSE s4
      ELSE [Log(Close(s3), "ERROR", "UPLOAD", "FILE_CREATION", 2002)
              EXCEPT !.uploadInProgress = FALSE]

\* handleFileUpload(), UPLOAD_FILE_WRITE: e.buf is upload.buf (currentSize
\* bytes), e.nWritten what uploadFile.write returns, e.totalSize
\* upload.totalSize
handleFileUpload_WRITE(s, e) ==
  IF s.uploadFile # "closed" /\ s.uploadInProgress
  THEN LET stored == SubSeq(e.buf, 1, e.nWritten)
           s1 == [s EXCEPT !.fs.data = IF s.uploadFile = "open"
                                       THEN @ \o stored ELSE @,
                           !.written = @ \o stored]
           s2 == IF e.nWritten # Len(e.buf)
                 THEN Log(s1, "ERROR", "UPLOAD", "FILE_WRITE", 2003) ELSE s1
       IN  IF e.totalSize > 32768 /\ Len(e.buf) % 4096 = 0
           THEN Log(s2, "INFO", "UPLOAD", "PROGRESS", 0) ELSE s2
  ELSE Log(s, "ERROR", "UPLOAD", "FILE_WRITE", 2004)

\* handleFileUpload(), UPLOAD_FILE_END
handleFileUpload_END(s) ==
  IF s.uploadFile # "closed" /\ s.uploadInProgress
  THEN LET s1 == Log([Close(s) EXCEPT !.uploadInProgress = FALSE],
                     "INFO", "UPLOAD", "COMPLETE", 0)
           s2 == Log([s1 EXCEPT !.lastUploadedSize = Len(s1.fs.data),
                                !.lastUploadedHash = calculateFileHash(s1.fs.data),
                                !.lastUploadTime = s1.millis],
                     "INFO", "UPLOAD", "VERIFICATION", 0)
       IN  IF ~s1.fs.exists
           THEN Log(s1, "ERROR", "UPLOAD", "FILE_VERIFICATION", 2005)
           ELSE IF s2.lastUploadedSize > 50000
           THEN Log(s2, "WARNING", "UPLOAD", "FILE_SIZE", 0)
           ELSE s2
  ELSE Log(s, "ERROR", "UPLOAD", "COMPLETION", 2006)

\* handleFileUpload() for one callback of the web server: status is
\* upload.status ("START", "WRITE", "END", "ABORTED")
handleFileUpload(s, rq, status, e) ==
  IF ~checkUploadToken(rq.hasHdr, rq.hdr, s.secret, s.millis)
  THEN Send(Log(s, "ERROR", "UPLOAD", "TOKEN_VERIFICATION", 2001),
            401, "Invalid or expired upload token")
  ELSE IF status = "START" THEN handleFileUpload_START(s, rq, e)
  ELSE IF status = "WRITE" THEN handleFileUpload_WRITE(s, e)
  ELSE IF status = "END" THEN handleFileUpload_END(s)
  ELSE s

\* handleUploadSuccess(): the handler of POST /upload, run once the request
\* is read
handleUploadSuccess(s) ==
  IF s.uploadInProgress
  THEN IF Elapsed(s.millis, s.uploadStartTime) > 30000
       THEN Send([Close(s) EXCEPT !.uploadInProgress = FALSE],
                 500, "Upload timeout")
       ELSE Send(s, 500, "Upload incomplete")
  ELSE Send(s, 200, "Upload successful")

\* handleFileDelete(): POST /delete
handleFileDelete(s, removeOk) ==
  IF s.fs.exists
  THEN IF removeOk
       THEN Send([Remove(s) EXCEPT !.lastUploadedSize = 0,
                                   !.lastUploadedHash = <<>>,
                                   !.lastUploadTime = 0],
                 200, "File deleted successfully")
       ELSE Send(s, 200, "Failed to delete file")
  ELSE Send(s, 200, "File not found")

\* handleMetadataUpload(): POST /upload-metadata
handleMetadataUpload(s, rq, e) ==
  IF ~checkUploadToken(rq.hasHdr, rq.hdr, s.secret, s.millis)
  THEN Send(s, 401, "Invalid or expired upload token")
  ELSE IF rq.hasMeta
  THEN Send(parseMetadata(s, rq.meta, e.mallocOk, e.garbage),
            200, "Metadata processed successfully")
  ELSE Send(s, 400, "No metadata provided")

\* constrain(v, low, high) on unsigned int
Constrain(v, low, high) ==
  IF ULt(v, low) THEN low ELSE IF ULt(high, v) THEN high ELSE v

\* the play branch without "currentFrameIndex = 0"
LedPlay_NoReset(s) ==
  [s EXCEPT !.ledPlaying = TRUE, !.ledPaused = FALSE,
            !.lastFrameTime = s.millis]

\* the play branch of handleLEDControl()
LedPlay(s) ==
  [s EXCEPT !.ledPlaying = TRUE, !.ledPaused = FALSE,
            !.currentFrameIndex = 0, !.lastFrameTime = s.millis]

\* the pause branch with the cursor reset of the stop branch
LedPause_ResetsCursor(s) ==
  [s EXCEPT !.ledPaused = TRUE, !.currentFrameIndex = 0]

\* the pause branch of handleLEDControl()
LedPause(s) == [s EXCEPT !.ledPaused = TRUE]

\* the set_delay branch with the "lastFrameTime = millis()" of the play branch
LedSetDelay_RestartsInterval(s, d) ==
  [s EXCEPT !.frameDelayMs = d, !.lastFrameTime = s.millis]

\* the set_delay branch of handleLEDControl(), d the constrained delay
LedSetDelay(s, d) == [s EXCEPT !.frameDelayMs = d]

\* handleLEDControl(): GET /led-control; arg is the delay_ms or brightness
\* argument that goes with the action
handleLEDControl(s, hasAction, action, hasArg, arg) ==
  IF ~hasAction THEN Send(s, 200, "No action specified")
  ELSE IF action = "play"
  THEN Send(LedPlay(s), 200, "LED animation started")
  ELSE IF action = "pause"
  THEN Send(LedPause(s), 200, "LED animation paused")
  ELSE IF action = "stop"
  THEN Send([s EXCEPT !.ledPlaying = FALSE, !.ledPaused = FALSE,
                      !.currentFrameIndex = 0],
            200, "LED animation stopped")
  ELSE IF action = "brightness" /\ hasArg
  THEN Send(s, 200, [level |-> Constrain(ToInt(arg), 0, 255)])
  ELSE IF action = "set_delay" /\ hasArg
  THEN LET d == Constrain(ToInt(arg), 10, 10000)
       IN  Send(LedSetDelay(s, d), 200, [delay_ms |-> d])
  ELSE IF action = "status"
  THEN Send(s, 200, [playing |-> s.ledPlaying, paused |-> s.ledPaused,
                     current_frame |-> s.currentFrameIndex,
                     total_frames |-> s.totalFrames,
                     frame_delay_ms |-> s.frameDelayMs])
  ELSE Send(s, 200, "Invalid action or missing parameters")

\* ESP.restart(): setup() runs again on the same flash.  Of a blob that was
\* open for writing, the first e.keep bytes are found again.  The log, kept
\* in RAM, starts anew.
Restart(s, e) ==
  [Boot(IF s.uploadFile = "open"
        THEN [s.fs EXCEPT !.data = SubSeq(@, 1, Min(e.keep, Len(@)))]
        ELSE s.fs,
        s.secret, e.wifiOk)
     EXCEPT !.sent = s.sent, !.restarted = TRUE, !.logged = s.logHistory]

\* uint8_t buffer[64] of ledPlaybackTick()
FrameBufferSize == 64

\* ledPlaybackTick().  e.openOk: whether the file opens for reading;
\* e.divCrash, e.divValue: what lastUploadedSize / totalFrames does when
\* totalFrames is 0 (the sketch is reset, or some value results).  A tick
\* that gets as far as opening the file appends to shown what it read: the
\* cursor, the position sought, the frame size, the bytes that buffer[64]
\* received, whether they were put out (bytesRead > 0) and the delay it
\* waited for.
ledPlaybackTick(s, e) ==
  LET now == s.millis
      thisDelay == IF ~s.perChunkDelays.null
                      /\ ULt(s.currentFrameIndex, s.perChunkDelaysCount)
                   THEN s.perChunkDelays.vals[s.currentFrameIndex + 1]
                   ELSE s.frameDelayMs
      frameSize == IF s.totalFrames = 0 THEN e.divValue
                   ELSE s.lastUploadedSize \div s.totalFrames
      framePos  == s.currentFrameIndex * frameSize
      bytesToRead == Min(frameSize, FrameBufferSize)
      \* file.seek(framePos) past the end fails and leaves the position at 0
      from  == IF framePos <= Len(s.fs.data) THEN framePos ELSE 0
      bytes == IF ULt(framePos, s.lastUploadedSize)
               THEN SubSeq(s.fs.data, from + 1,
                           Min(from + bytesToRead, Len(s.fs.data)))
               ELSE <<>>
      next == s.currentFrameIndex + 1
  IN  IF ~s.ledPlaying \/ s.ledPaused THEN s
      ELSE IF ULt(Elapsed(now, s.lastFrameTime), s.frameDelayMs) THEN s
      ELSE IF ULt(Elapsed(now, s.lastFrameTime), thisDelay) THEN s
      ELSE IF ~(s.fs.exists /\ e.openOk) THEN [s EXCEPT !.ledPlaying = FALSE]
      ELSE IF s.totalFrames = 0 /\ e.divCrash THEN Restart(s, e)
      ELSE [s EXCEPT !.currentFrameIndex =
                        IF ULt(next, s.totalFrames) THEN next ELSE 0,
                     !.lastFrameTime = now,
                     !.shown = Append(@, [index |-> s.currentFrameIndex,
                                          pos |-> framePos, size |-> frameSize,
                                          bytes |-> bytes,
                                          emitted |-> bytes # <<>>,
                                          delay |-> thisDelay])]

\* the stuck-upload branch of loop() without "uploadInProgress = false"
ResetStuckUpload_KeepsFlag(s) == Close(s)

\* the stuck-upload branch of loop(): the flag is cleared and the handle
\* closed
ResetStuckUpload(s) == [Close(s) EXCEPT !.uploadInProgress = FALSE]

\* loop() without its stuck-upload branch
loop_NoStuckCheck(s, e) ==
  LET s1 == IF s.ledPlaying /\ ~s.ledPaused /\ s.fs.exists
               /\ s.lastUploadedSize > 0
            THEN ledPlaybackTick(s, e) ELSE s
  IN  IF s1.restarted THEN s1
      ELSE IF e.heap < 8000 THEN Restart(s1, e)
      ELSE s1

\* the part of loop() after server.handleClient(); e.heap is
\* ESP.getFreeHeap()
loop(s, e) ==
  LET s1 == IF s.ledPlaying /\ ~s.ledPaused /\ s.fs.exists
               /\ s.lastUploadedSize > 0
            THEN ledPlaybackTick(s, e) ELSE s
  IN  IF s1.restarted THEN s1
      ELSE IF e.heap < 8000 THEN Restart(s1, e)
      ELSE IF s1.uploadInProgress
              /\ Elapsed(s1.millis, s1.uploadStartTime) > 60000
      THEN ResetStuckUpload(s1)
      ELSE s1

\* handleSystemReset(): POST /system-reset
handleSystemReset(s, hasType, type, e) ==
  IF ~hasType THEN Send(s, 400, "No reset type specified")
  ELSE IF type = "wifi" THEN Send(s, 200, "WiFi settings reset")
  ELSE IF type = "filesystem" THEN Send(Remove(s), 200, "File system cleared")
  ELSE IF type = "full"
  THEN Restart(Send(s, 200, "Full system reset initiated"), e)
  ELSE Send(s, 400, "Invalid reset type")

\* UPLOAD_FILE, the name of the stored blob
UPLOAD_FILE == "/temp_export_data.bin"

\* handleFileList(): GET /file-list; the directory holds the blob or nothing
handleFileList(s) ==
  Send(s, 200, IF s.fs.exists
               THEN <<[name |-> UPLOAD_FILE, size |-> Len(s.fs.data)]>>
               ELSE <<>>)

\* ------------------------------------------------------------------------
\* The diagnostic firmware serving requests
\* ------------------------------------------------------------------------
\* what the platform answers when nothing fails
Env0 ==
  [heap |-> 20000, removeOk |-> TRUE, openOk |-> TRUE, mallocOk |-> TRUE,
   garbage |-> 0, buf |-> <<>>, nWritten |-> 0, totalSize |-> 0, keep |-> 0,
   wifiOk |-> TRUE, divCrash |-> TRUE, divValue |-> 0,
   free |-> 1000000, saveOk |-> TRUE, loadOk |-> TRUE]

MaxUploads == 1
MaxWrites == 2
MaxBlobBytes == 3

\* the token the uploader holds: issued for second 1 of the uptime
DevToken == issue(ChangeThisSecret, 1)

\* a request without X-Upload-Token
NoHeader == [hasHdr |-> FALSE, hdr |-> <<>>]

WithToken == [hasHdr |-> TRUE, hdr |-> DevToken]

NoMeta == [hasMeta |-> FALSE, meta |-> <<>>]

\* {"frame_delay_ms": 50, "total_frames": 2}
MetaSpaced == <<123, 34, 102, 114, 97, 109, 101, 95, 100, 101, 108, 97, 121, 95, 109, 115, 34, 58, 32, 53, 48, 44, 32, 34, 116, 111, 116, 97, 108, 95, 102, 114, 97, 109, 101, 115, 34, 58, 32, 50, 125>>

\* the write callbacks: upload.buf, upload.totalSize and what
\* uploadFile.write returns (n).  A buffer is shorter than 4096 bytes, so
\* currentSize % 4096 == 0 is an empty buffer.
Writes ==
  {[buf |-> <<1>>, totalSize |-> 1, n |-> 1],
   [buf |-> <<2, 3>>, totalSize |-> 3, n |-> 2],
   [buf |-> <<2, 3>>, totalSize |-> 3, n |-> 1],
   [buf |-> <<2, 3>>, totalSize |-> 3, n |-> 0],
   [buf |-> <<>>, totalSize |-> 40000, n |-> 0]}

\* what a flash that was written before this boot holds
OldBlobs == {NoFile, [exists |-> TRUE, data |-> <<7, 8, 9>>]}

\* uploads in every detail, with the uptime inside the token's window and
\* past the upload timeouts
UploadEnv ==
  [times |-> {1000, 62000}, headers |-> {NoHeader, WithToken},
   metas |-> {NoMeta, [hasMeta |-> TRUE, meta |-> MetaSpaced]},
   writes |-> Writes, startHeaps |-> {20000}, loopHeaps |-> {20000},
   keeps |-> {0}, crashes |-> {TRUE},
   fsOk |-> BOOLEAN, resets |-> {"filesystem", "other"},
   actions |-> {}, delays |-> {},
   names |-> {}, tokens |-> {}, sizes |-> {}, frees |-> {},
   sessions |-> MaxUploads, blob |-> MaxBlobBytes]

\* the last response of a handler call: <<code, body>>, <<0, "">> if none
LastSent(s) == IF s.sent = <<>> THEN <<0, "">> ELSE s.sent[Len(s.sent)]

\* the step served request ep of h (hasHdr, hdr) and left the globals as s
Served(ep, h, s) ==
  /\ Becomes(s)
  /\ lastReq' = Req(ep, h.hasHdr, h.hdr, LastSent(s)[1], LastSent(s)[2])
  /\ UNCHANGED <<env, fast, large>>

TimePasses ==
  /\ \E m \in env.times : m > millis /\ millis' = m
  /\ lastReq' = NoReq
  /\ UNCHANGED <<secret, diag, logHistory, devVars, env, fast, large>>

\* POST /upload: the web server meets the file part (UPLOAD_FILE_START)
PostUploadStart ==
  /\ http.phase = "idle"
  /\ uploads < env.sessions
  /\ \E h \in env.headers, m \in env.metas, heap \in env.startHeaps,
        removeOk \in env.fsOk, openOk \in env.fsOk :
       LET rq == [hasHdr |-> h.hasHdr, hdr |-> h.hdr,
                  hasMeta |-> m.hasMeta, meta |-> m.meta]
           e  == [Env0 EXCEPT !.heap = heap, !.removeOk = removeOk,
                              !.openOk = openOk]
           s  == handleFileUpload(St, rq, "START", e)
       IN  /\ Served("upload-start", h, s)
           /\ http' = [phase |-> "body", hasHdr |-> h.hasHdr, hdr |-> h.hdr,
                       hasMeta |-> m.hasMeta, meta |-> m.meta,
                       opened |-> (s.sent = <<>> /\ s.uploadFile = "open"),
                       short |-> FALSE, closed |-> FALSE, writes |-> 0,
                       prevSize |-> lastUploadedSize,
                       prevHash |-> lastUploadedHash]
  /\ uploads' = uploads + 1

\* the web server hands over a buffer of the file part (UPLOAD_FILE_WRITE)
PostUploadWrite ==
  /\ http.phase = "body"
  /\ http.writes < MaxWrites
  /\ \E w \in env.writes :
       LET e == [Env0 EXCEPT !.buf = w.buf, !.nWritten = w.n,
                             !.totalSize = w.totalSize]
           s == handleFileUpload(St, http, "WRITE", e)
       IN  /\ Len(fs.data) + w.n <= env.blob
           /\ Served("upload-write", http, s)
           /\ http' = [http EXCEPT
                         !.writes = @ + 1,
                         !.short = @ \/ (s.sent = <<>> /\ w.n # Len(w.buf)
                                         /\ uploadFile # "closed"
                                         /\ uploadInProgress)]
  /\ UNCHANGED uploads

\* the file part ends (UPLOAD_FILE_END)
PostUploadEnd ==
  /\ http.phase = "body"
  /\ LET s == handleFileUpload(St, http, "END", Env0)
     IN  /\ Served("upload-end", http, s)
         /\ http' = [http EXCEPT
                       !.phase = "ended",
                       !.closed = (s.sent = <<>> /\ uploadFile # "closed"
                                   /\ uploadInProgress)]
  /\ UNCHANGED uploads

\* the client goes away inside the file part (UPLOAD_FILE_ABORTED); the
\* request handler is not run
PostUploadAborted ==
  /\ http.phase = "body"
  /\ Served("upload-aborted", http, handleFileUpload(St, http, "ABORTED", Env0))
  /\ http' = Idle
  /\ UNCHANGED uploads

\* the request is read to its end: handleUploadSuccess answers it
PostUploadDone ==
  /\ http.phase = "ended"
  /\ Served("upload-done", http, handleUploadSuccess(St))
  /\ http' = Idle
  /\ UNCHANGED uploads

\* POST /delete
PostDelete ==
  /\ http.phase = "idle"
  /\ \E removeOk \in env.fsOk :
       Served("delete", NoHeader, handleFileDelete(St, removeOk))
  /\ UNCHANGED <<http, uploads>>

\* POST /system-reset
PostSystemReset ==
  /\ http.phase = "idle"
  /\ \E type \in env.resets :
       Served("system-reset", NoHeader, handleSystemReset(St, TRUE, type, Env0))
  /\ UNCHANGED <<http, uploads>>

\* what a pass of loop() saw and did: the free heap it read, whether an
\* upload had its file open, whether it restarted the device and what the log
\* held at that moment, and the frames it put out
LoopReport(heap, s) ==
  [NoReq EXCEPT !.arg = "loop",
                !.body = [heap |-> heap,
                          uploading |-> uploadInProgress /\ uploadFile = "open",
                          restarted |-> s.restarted, logged |-> s.logged,
                          shown |-> s.shown]]

\* one pass of loop() that serves no request
LoopPass ==
  /\ \E heap \in env.loopHeaps, keep \in env.keeps, divCrash \in env.crashes,
        openOk \in env.fsOk :
       LET s == loop(St, [Env0 EXCEPT !.heap = heap, !.keep = keep,
                                      !.divCrash = divCrash,
                                      !.openOk = openOk])
       IN  /\ Becomes(s)
           /\ http' = IF s.restarted THEN Idle ELSE http
           /\ lastReq' = LoopReport(heap, s)
  /\ UNCHANGED <<uploads, env, fast, large>>

\* GET /led-control?action=...; set_delay comes with delay_ms
GetLedControl ==
  /\ http.phase = "idle"
  /\ \E action \in env.actions :
       \E arg \in IF action = "set_delay" THEN env.delays ELSE {<<>>} :
         LET s == handleLEDControl(St, TRUE, action, action = "set_delay", arg)
         IN  /\ Becomes(s)
             /\ lastReq' = [Req("led-control", FALSE, <<>>, LastSent(s)[1],
                                LastSent(s)[2]) EXCEPT !.arg = action]
             /\ UNCHANGED <<env, fast, large>>
  /\ UNCHANGED <<http, uploads>>

\* GET /file-list
GetFileList ==
  /\ http.phase = "idle"
  /\ env.keeps # {}
  /\ Served("file-list", NoHeader, handleFileList(St))
  /\ UNCHANGED <<http, uploads>>

\* a JSON object starts with '{' and ends with '}'
Braced(meta) ==
  Len(meta) >= 2 /\ meta[1] = 123 /\ meta[Len(meta)] = 125

\* the step served POST /upload-metadata of h with the body m and left the
\* globals as s; the request is noted as malformed when its body is no JSON
\* object
MetadataServed(h, m, s) ==
  /\ Becomes(s)
  /\ lastReq' = [Req("upload-metadata", h.hasHdr, h.hdr,
                     LastSent(s)[1], LastSent(s)[2])
                   EXCEPT !.arg = IF m.hasMeta /\ ~Braced(m.meta)
                                  THEN "malformed" ELSE ""]
  /\ UNCHANGED <<env, fast, large>>

\* POST /upload-metadata
PostUploadMetadata ==
  /\ http.phase = "idle"
  /\ \E h \in env.headers, m \in env.metas :
       MetadataServed(h, m,
                      handleMetadataUpload(St, [hasHdr |-> h.hasHdr,
                                                hdr |-> h.hdr,
                                                hasMeta |-> m.hasMeta,
                                                meta |-> m.meta],
                                           Env0))
  /\ UNCHANGED <<http, uploads>>

\* the device after setup(), on a flash that may hold a blob of an earlier
\* boot
InitDev(e) ==
  /\ \E fs0 \in OldBlobs : StateIs(Boot(fs0, ChangeThisSecret, TRUE))
  /\ http = Idle
  /\ uploads = 0
  /\ lastReq = NoReq
  /\ env = e
  /\ fast = FastOff
  /\ large = LargeZero

InitUpload == InitDev(UploadEnv)

NextUpload ==
  \/ TimePasses
  \/ PostUploadStart
  \/ PostUploadWrite
  \/ PostUploadEnd
  \/ PostUploadAborted
  \/ PostUploadDone
  \/ PostDelete
  \/ PostSystemReset
  \/ LoopPass

SpecUpload == InitUpload /\ [][NextUpload]_vars

\* C4: when a secret is configured, a request without a valid token changes
\* neither the stored blob, nor the recorded size and digest, nor the frame
\* count, nor the frame delay, nor the per-chunk delays, whichever endpoint
\* it is sent to.
C4_GateWrapsMutations ==
  [][(/\ lastReq'.ep # "none"
      /\ secret # <<>>
      /\ ~checkUploadToken(lastReq'.hasHdr, lastReq'.hdr, secret, millis))
     => UNCHANGED <<fs, lastUploadedSize, lastUploadedHash, totalFrames,
                    frameDelayMs, perChunkDelays, perChunkDelaysCount>>]_vars

\* C8: an upload with a short write has ERROR 2003 in the log, is not
\* answered 200, and leaves the recorded size and digest as they were before
\* the upload.
C8_ShortWriteNotLinked ==
  [][(http.phase = "ended" /\ http.short /\ lastReq'.ep = "upload-done")
     => (/\ \E i \in DOMAIN logHistory : logHistory[i].errorCode = 2003
         /\ lastReq'.code # 200
         /\ lastUploadedSize' = http.prevSize
         /\ lastUploadedHash' = http.prevHash)]_vars

\* C18: a pass of loop() that directly follows an accepted write callback of
\* the upload in progress (no time has passed since the upload's last
\* progress) does not abandon the upload, and a pass of loop() that abandons
\* an upload closes the file handle and appends a WARNING to the log.
C18_AbandonedOnlyWithoutProgress ==
  [][/\ (/\ lastReq.ep = "upload-write" /\ lastReq.code = 0
          /\ uploadInProgress
          /\ lastReq'.arg = "loop" /\ ~lastReq'.body.restarted)
          => uploadInProgress'
     /\ (/\ uploadInProgress /\ ~uploadInProgress'
          /\ lastReq'.arg = "loop" /\ ~lastReq'.body.restarted)
          => (/\ uploadFile' = "closed"
              /\ Len(logHistory') > Len(logHistory)
              /\ logHistory'[Len(logHistory')].level = "WARNING")]_vars

\* C26: the handler that answers an upload request always sends a response,
\* and it answers 200 only if the upload's start callback opened the file
\* and its end callback closed it: an upload refused by the token gate, one
\* whose file did not open and one that was abandoned are not answered 200.
C26_SuccessOnlyIfStored ==
  [][lastReq'.ep = "upload-done"
     => (/\ lastReq'.code # 0
         /\ lastReq'.code = 200 => (http.opened /\ http.closed))]_vars

\* ------------------------------------------------------------------------
\* The diagnostic firmware playing
\* ------------------------------------------------------------------------
\* "50"
Delay50 == <<53, 48>>

\* one upload of two bytes by a client that holds the token, and the LED
\* requests, with the uptime in steps of the frame delays
PlayEnv ==
  [times |-> {1000, 1050, 1100}, headers |-> {WithToken},
   metas |-> {NoMeta, [hasMeta |-> TRUE, meta |-> MetaSpaced]},
   writes |-> {[buf |-> <<2, 3>>, totalSize |-> 3, n |-> 2]},
   startHeaps |-> {20000}, loopHeaps |-> {20000},
   keeps |-> {0, 2}, crashes |-> BOOLEAN,
   fsOk |-> {TRUE}, resets |-> {},
   actions |-> {"play", "pause", "stop", "set_delay"}, delays |-> {Delay50},
   names |-> {}, tokens |-> {}, sizes |-> {}, frees |-> {},
   sessions |-> MaxUploads, blob |-> MaxBlobBytes]

InitPlay == InitDev(PlayEnv)

NextPlay ==
  \/ TimePasses
  \/ PostUploadStart
  \/ PostUploadWrite
  \/ PostUploadEnd
  \/ PostUploadDone
  \/ PostUploadMetadata
  \/ GetLedControl
  \/ LoopPass

SpecPlay == InitPlay /\ [][NextPlay]_vars

\* C10: the scheduler is STOPPED (not playing, not paused), PLAYING (playing,
\* not paused) or PAUSED (playing and paused); playing = false with
\* paused = true is never reached.
C10_PausedOnlyFromPlaying == ledPaused => ledPlaying

\* C11: a pause request leaves the cursor, the frame delay, the per-chunk
\* delays, the frame count and the stored pattern with its recorded size and
\* digest as they are, and a pass of loop() that finds the scheduler paused
\* and leaves it paused does not move the cursor.
C11_PauseKeepsCursor ==
  [][/\ (lastReq'.ep = "led-control" /\ lastReq'.arg = "pause")
          => (/\ ledPaused'
              /\ UNCHANGED <<currentFrameIndex, frameDelayMs, totalFrames,
                             perChunkDelays, perChunkDelaysCount, fs,
                             lastUploadedSize, lastUploadedHash>>)
     /\ (ledPaused /\ ledPaused' /\ lastReq'.arg = "loop")
          => (currentFrameIndex' = currentFrameIndex
              /\ lastReq'.body.shown = <<>>)]_vars

\* playback was paused at frame 1, and a pass of loop() has run since at a
\* time when the frame delay had elapsed
C11_Witness ==
  /\ ledPlaying /\ ledPaused /\ currentFrameIndex = 1
  /\ lastReq.arg = "loop"
  /\ ~ULt(Elapsed(millis, lastFrameTime), frameDelayMs)

hasEnoughSpace(incoming, free) ==
  IF incoming + 8192 > free THEN FALSE
  ELSE IF incoming > MAX_UPLOAD_SIZE THEN FALSE
  ELSE TRUE

\* saveMetadata(): metadata.json becomes the serialized metadataDoc
saveMetadata(f, openOk) ==
  IF openOk
  THEN [f EXCEPT !.metadataJson = [exists |-> TRUE, doc |-> f.metadataDoc]]
  ELSE f

\* the size a read handle of path reports; 0 where there is no such file
SizeOf(f, path) ==
  IF path \in DOMAIN f.files /\ f.files[path].exists
  THEN Len(f.files[path].data) ELSE 0

\* handleUpload(), UPLOAD_FILE_START.  rq.filename is upload.filename;
\* e.totalSize is upload.totalSize, e.free the free flash
handleUpload_START(f, rq, e) ==
  LET name == IF rq.filename = "" THEN "upload.bin" ELSE rq.filename
      path == PatternPath(name)
      f1   == [f EXCEPT !.filename = name]
      f2   == IF f1.files[path].exists /\ e.removeOk
              THEN [f1 EXCEPT !.files[path] = NoFile] ELSE f1
  IN  IF ~hasEnoughSpace(e.totalSize, e.free)
      THEN Send(f1, 413, "Not enough storage space")
      ELSE IF e.openOk
      THEN [f2 EXCEPT !.files[path] = OpenForWrite(@),
                      !.out = [open |-> TRUE, path |-> path],
                      !.written = <<>>]
      ELSE Send([f2 EXCEPT !.out = NoHandle], 500, "File create failed")

\* handleUpload(), UPLOAD_FILE_WRITE: out.write(upload.buf,
\* upload.currentSize) stores e.nWritten bytes
handleUpload_WRITE(f, e) ==
  IF f.out.open
  THEN LET stored == SubSeq(e.buf, 1, e.nWritten)
       IN  [f EXCEPT !.files[f.out.path].data = @ \o stored,
                     !.written = @ \o stored]
  ELSE f

\* handleUpload(), UPLOAD_FILE_END
handleUpload_END(f, e) ==
  IF f.out.open
  THEN LET size  == IF e.openOk THEN SizeOf(f, PatternPath(f.filename)) ELSE 0
           entry == [size |-> size, frames |-> size \div FRAME_BYTES,
                     delay |-> f.frameDelayMs]
           doc   == IF f.metadataDoc.null THEN f.metadataDoc
                    ELSE [null |-> FALSE, hasPatterns |-> TRUE,
                          patterns |-> (f.filename :> entry)]
       IN  Send(saveMetadata([f EXCEPT !.out = NoHandle, !.metadataDoc = doc],
                             e.saveOk),
                200, [file |-> f.filename])
  ELSE f

\* handleUpload(), the upload callback of POST /upload; rq.hasToken and
\* rq.token are the token argument of the request
handleUpload(f, rq, status, e) ==
  IF ~rq.hasToken \/ rq.token # UPLOAD_TOKEN
  THEN Send(f, 401, "Invalid token")
  ELSE IF status = "START" THEN handleUpload_START(f, rq, e)
  ELSE IF status = "WRITE" THEN handleUpload_WRITE(f, e)
  ELSE IF status = "END" THEN handleUpload_END(f, e)
  ELSE f

\* handleUploadChunked(), UPLOAD_FILE_START.  rq.chunkName is
\* server.arg("chunk_name"), rq.filename upload.filename; chunkName, out and
\* totalWritten are the statics of the function
handleUploadChunked_START(f, rq, e) ==
  LET name == IF rq.chunkName = "" THEN rq.filename ELSE rq.chunkName
      path == PatternPath(name)
      f1   == [f EXCEPT !.chunkName = name]
      f2   == IF f1.files[path].exists /\ e.removeOk
              THEN [f1 EXCEPT !.files[path] = NoFile] ELSE f1
  IN  IF ~hasEnoughSpace(e.totalSize, e.free)
      THEN Send(f1, 413, "Not enough storage")
      ELSE IF e.openOk
      THEN [f2 EXCEPT !.files[path] = OpenForWrite(@),
                      !.chunkOut = [open |-> TRUE, path |-> path],
                      !.totalWritten = 0, !.written = <<>>]
      ELSE Send([f2 EXCEPT !.chunkOut = NoHandle, !.totalWritten = 0],
                500, "File create failed")

\* handleUploadChunked(), UPLOAD_FILE_WRITE
handleUploadChunked_WRITE(f, e) ==
  IF f.chunkOut.open
  THEN LET stored == SubSeq(e.buf, 1, e.nWritten)
       IN  [f EXCEPT !.files[f.chunkOut.path].data = @ \o stored,
                     !.written = @ \o stored,
                     !.totalWritten = @ + Len(e.buf)]
  ELSE f

\* the entry patterns.createNestedObject(name) makes, filled with fields;
\* nothing is made on a document that holds no object
WithEntry(doc, name, fields) ==
  IF doc.null THEN doc
  ELSE [null |-> FALSE, hasPatterns |-> TRUE,
        patterns |-> (name :> fields) @@ doc.patterns]

\* handleUploadChunked(), UPLOAD_FILE_END
handleUploadChunked_END(f, e) ==
  IF f.chunkOut.open
  THEN LET path  == PatternPath(f.chunkName)
           size  == IF f.files[path].exists /\ e.openOk
                    THEN Len(f.files[path].data) ELSE f.totalWritten
           f1    == loadMetadata([f EXCEPT !.chunkOut = NoHandle], e.loadOk)
           entry == [size |-> size, frames |-> size \div FRAME_BYTES,
                     delay |-> f.frameDelayMs]
       IN  Send(saveMetadata([f1 EXCEPT !.metadataDoc =
                                          WithEntry(@, f.chunkName, entry)],
                             e.saveOk),
                200, [chunk |-> f.chunkName])
  ELSE f

\* handleUploadChunked(), the upload callback of POST /upload-chunked
handleUploadChunked(f, rq, status, e) ==
  IF ~rq.hasToken \/ rq.token # UPLOAD_TOKEN
  THEN Send(f, 401, "Invalid token")
  ELSE IF status = "START" THEN handleUploadChunked_START(f, rq, e)
  ELSE IF status = "WRITE" THEN handleUploadChunked_WRITE(f, e)
  ELSE IF status = "END" THEN handleUploadChunked_END(f, e)
  ELSE f

\* handleSetMetadata(): /set-metadata.  rq.body is server.arg("plain") as
\* deserializeJson reads it: empty (no body), valid (it parses), and the
\* members "file", "frames", "delay" it holds
handleSetMetadata(f, rq, e) ==
  LET b      == rq.body
      frames == IF b.hasFrames THEN b.frames ELSE 0
      delay  == IF b.hasDelay THEN b.delay ELSE f.frameDelayMs
      path   == PatternPath(b.file)
      f1     == loadMetadata(f, e.loadOk)
      entry  == IF path \in DOMAIN f.files /\ f.files[path].exists /\ e.openOk
                THEN [size |-> Len(f.files[path].data), frames |-> frames,
                      delay |-> delay]
                ELSE [frames |-> frames, delay |-> delay]
  IN  IF ~rq.hasToken \/ rq.token # UPLOAD_TOKEN
      THEN Send(f, 401, "Invalid token")
      ELSE IF rq.method # "POST" THEN Send(f, 405, "Use POST with JSON body")
      ELSE IF b.empty THEN Send(f, 400, "Empty body")
      ELSE IF ~b.valid THEN Send(f, 400, "Invalid JSON")
      ELSE IF ~b.hasFile THEN Send(f, 400, "file missing")
      ELSE Send(saveMetadata([f1 EXCEPT !.metadataDoc =
                                          WithEntry(@, b.file, entry)],
                             e.saveOk),
                200, [file |-> b.file])

\* handlePlay(): GET /play?file=...; now is millis()
handlePlay(f, hasFile, file, now, e) ==
  LET path == PatternPath(file)
      f1   == loadMetadata([f EXCEPT !.playbackFile =
                                       [open |-> TRUE, path |-> path]],
                           e.loadOk)
      doc  == f1.metadataDoc
      size == SizeOf(f, path)
      known == ~doc.null /\ doc.hasPatterns /\ file \in DOMAIN doc.patterns
      delay  == IF known THEN doc.patterns[file].delay ELSE 100
      frames == IF ~doc.null /\ doc.hasPatterns
                THEN IF known THEN doc.patterns[file].frames ELSE 0
                ELSE size \div FRAME_BYTES
  IN  IF ~hasFile THEN Send(f, 400, "file param required")
      ELSE IF SizeOf(f, path) = 0 /\ ~(path \in DOMAIN f.files
                                      /\ f.files[path].exists)
      THEN Send(f, 404, "file not found")
      ELSE IF f.playing /\ f.currentPatternPath = path
      THEN Send(f, 200, "already playing")
      ELSE IF ~e.openOk
      THEN Send([f EXCEPT !.playbackFile = NoHandle], 500, "open failed")
      ELSE Send([f1 EXCEPT !.frameDelayMs = delay, !.totalFrames = frames,
                           !.currentPatternPath = path, !.currentFrame = 0,
                           !.playing = TRUE,
                           !.lastFrameMillis = now - delay],
                200, [file |-> file, frames |-> frames])

\* handleStop(): GET /stop
handleStop(f) ==
  Send([f EXCEPT !.playing = FALSE, !.playbackFile = NoHandle],
       200, "stopped")

\* static uint8_t frameBuf[1024] of loop()
FrameBufSize == 1024

\* the playback part of loop() of the FastLED sketch; now is millis().  A
\* read handle sees what the file of its path holds now.  A pass that reads
\* appends to shown the cursor it read at, the position sought, the frame
\* size, the bytes that frameBuf received and whether FastLED.show() ran.
loopFast(f, now) ==
  LET data  == IF f.playbackFile.path \in DOMAIN f.files
               THEN f.files[f.playbackFile.path].data ELSE <<>>
      size  == SizeOf(f, f.playbackFile.path)
      wrap  == f.currentFrame * FRAME_BYTES + FRAME_BYTES > size
      frame == IF wrap THEN 0 ELSE f.currentFrame
      r     == Min(FRAME_BYTES, size - frame * FRAME_BYTES)
      f1    == IF r = FRAME_BYTES THEN f
               ELSE [f EXCEPT !.playing = FALSE, !.playbackFile = NoHandle]
      next  == frame + 1
  IN  IF ~(f.playing /\ f.playbackFile.open) THEN f
      ELSE IF ULt(Elapsed(now, f.lastFrameMillis), f.frameDelayMs) THEN f
      ELSE [f1 EXCEPT !.currentFrame =
                        IF next >= f.totalFrames /\ f.totalFrames > 0
                        THEN 0 ELSE next,
                      !.lastFrameMillis = now,
                      !.shown = Append(@, [index |-> frame,
                                           pos |-> frame * FRAME_BYTES,
                                           size |-> FRAME_BYTES,
                                           bytes |-> SubSeq(data, frame * FRAME_BYTES + 1,
                                                            frame * FRAME_BYTES + r),
                                           emitted |-> r = FRAME_BYTES,
                                           delay |-> f.frameDelayMs])]

\* ------------------------------------------------------------------------
\* The FastLED firmware serving requests
\* ------------------------------------------------------------------------
MaxFastUploads == 2

\* a frame all of whose bytes are b
Frame(b) == [i \in 1..FRAME_BYTES |-> b]

\* the step served request ep of rq and left the sketch as f
FastServed(ep, rq, f) ==
  /\ fast' = [f EXCEPT !.sent = <<>>]
  /\ lastReq' = Req(ep, rq.hasToken, rq.token, LastSent(f)[1], LastSent(f)[2])
  /\ UNCHANGED <<diagVars, env, large>>

NoToken == [hasToken |-> FALSE, token |-> ""]

\* POST /upload?token=...: the file part begins
FastUploadStart ==
  /\ http.phase = "idle"
  /\ uploads < env.sessions
  /\ \E t \in env.tokens, name \in env.names, size \in env.sizes,
        free \in env.frees, removeOk \in env.fsOk, openOk \in env.fsOk :
       LET rq == [hasToken |-> t.hasToken, token |-> t.token,
                  filename |-> name]
           e  == [Env0 EXCEPT !.totalSize = size, !.free = free,
                              !.removeOk = removeOk, !.openOk = openOk]
           f  == handleUpload(fast, rq, "START", e)
       IN  /\ FastServed("upload-start", rq, f)
           /\ http' = [phase |-> "receiving", hasToken |-> t.hasToken,
                       token |-> t.token, filename |-> name,
                       tooLarge |-> ~hasEnoughSpace(size, free),
                       rejected |-> f.sent # <<>>,
                       opened |-> (f.sent = <<>> /\ f.out.open),
                       closed |-> FALSE, writes |-> 0]
  /\ uploads' = uploads + 1

\* a buffer of the file part arrives
FastUploadWrite ==
  /\ http.phase = "receiving"
  /\ http.writes < MaxWrites
  /\ \E w \in env.writes :
       FastServed("upload-write", http,
                  handleUpload(fast, http, "WRITE",
                               [Env0 EXCEPT !.buf = w.buf, !.nWritten = w.n]))
  /\ http' = [http EXCEPT !.writes = @ + 1]
  /\ UNCHANGED uploads

\* the file part ends
FastUploadEnd ==
  /\ http.phase = "receiving"
  /\ \E openOk \in env.fsOk, saveOk \in env.fsOk :
       LET f == handleUpload(fast, http, "END",
                             [Env0 EXCEPT !.openOk = openOk, !.saveOk = saveOk])
       IN  /\ FastServed("upload-end", http, f)
           /\ http' = [http EXCEPT
                         !.phase = "received",
                         !.closed = (fast.out.open /\ ~f.out.open)]
  /\ UNCHANGED uploads

\* the client goes away inside the file part
FastUploadAborted ==
  /\ http.phase = "receiving"
  /\ FastServed("upload-aborted", http, handleUpload(fast, http, "ABORTED", Env0))
  /\ http' = Idle
  /\ UNCHANGED uploads

\* the request is read to its end: the handler of POST /upload, server.send(200)
FastUploadDone ==
  /\ http.phase = "received"
  /\ FastServed("upload-done", http, Send(fast, 200, ""))
  /\ http' = Idle
  /\ UNCHANGED uploads

\* GET /play?file=...
FastPlay ==
  /\ http.phase = "idle"
  /\ \E name \in env.names, openOk \in env.fsOk :
       LET f == handlePlay(fast, TRUE, name, millis,
                           [Env0 EXCEPT !.openOk = openOk])
       IN  /\ fast' = [f EXCEPT !.sent = <<>>]
           /\ lastReq' = [Req("play", FALSE, "", LastSent(f)[1], LastSent(f)[2])
                            EXCEPT !.arg = name]
           /\ UNCHANGED <<diagVars, env, large>>
  /\ UNCHANGED <<http, uploads>>

\* GET /stop
FastStop ==
  /\ http.phase = "idle"
  /\ env.names # {}
  /\ FastServed("stop", NoToken, handleStop(fast))
  /\ UNCHANGED <<http, uploads>>

\* one pass of loop() of the FastLED sketch that serves no request
FastLoop ==
  /\ env.names # {}
  /\ LET f == loopFast(fast, millis)
     IN  /\ fast' = [f EXCEPT !.shown = <<>>]
         /\ lastReq' = LoopReport(Env0.heap,
                                  [restarted |-> FALSE, logged |-> <<>>,
                                   shown |-> f.shown])
  /\ UNCHANGED <<diagVars, env, http, uploads, large>>

\* the uploader with and without the token, uploads of zero, one or two
\* frames, of a size within and above the limit
FastEnv ==
  [NoEnv EXCEPT
     !.times = {1000, 1100},
     !.tokens = {NoToken, [hasToken |-> TRUE, token |-> UPLOAD_TOKEN]},
     !.names = {"a.bin", "b.bin"},
     !.sizes = {0, 300000}, !.frees = {1000000},
     !.writes = {[buf |-> Frame(1), totalSize |-> 0, n |-> FRAME_BYTES]},
     !.fsOk = {TRUE}, !.sessions = MaxFastUploads]

\* what a flash that was written before this boot holds
OldPatterns ==
  {[p \in FastPaths |-> NoFile],
   [p \in FastPaths |->
      IF p = PatternPath("a.bin")
      THEN [exists |-> TRUE, data |-> Frame(7) \o Frame(8)] ELSE NoFile]}

OldMetadata ==
  {[exists |-> FALSE, doc |-> NullDoc], [exists |-> TRUE, doc |-> EmptyDoc]}

\* the FastLED sketch after setup(), on a flash that may hold a pattern and
\* a metadata.json of an earlier boot
InitSketch(e) ==
  /\ StateIs(Boot(NoFile, ChangeThisSecret, TRUE))
  /\ http = Idle
  /\ uploads = 0
  /\ lastReq = NoReq
  /\ env = e
  /\ large = LargeZero
  /\ \E files0 \in OldPatterns, meta0 \in OldMetadata :
       fast = FastBoot(files0, meta0)

InitFast == InitSketch(FastEnv)

NextFast ==
  \/ TimePasses
  \/ FastUploadStart
  \/ FastUploadWrite
  \/ FastUploadEnd
  \/ FastUploadAborted
  \/ FastUploadDone
  \/ FastPlay
  \/ FastStop
  \/ FastLoop

SpecFast == InitFast /\ [][NextFast]_vars

\* C6: an upload whose declared size hasEnoughSpace refuses is answered with
\* an error at its start callback, and none of its later callbacks changes
\* any pattern file.
C6_RejectedUploadWritesNothing ==
  [][/\ (http'.phase = "receiving" /\ http'.tooLarge) => http'.rejected
     /\ (http.phase = "receiving" /\ http.tooLarge)
          => fast'.files = fast.files]_vars

\* ------------------------------------------------------------------------
\* Upload sessions of both sketches
\* ------------------------------------------------------------------------
\* sessions with and without a token, each write callback storing all or a
\* part of its buffer, on a flash whose files may fail to be removed or opened
StoreWrites == {w \in Writes : w.n > 0}

StoreEnv ==
  [UploadEnv EXCEPT !.times = {1000}, !.metas = {NoMeta}, !.resets = {},
                    !.writes = StoreWrites]

StoreEnvFast ==
  [FastEnv EXCEPT !.times = {1000}, !.fsOk = BOOLEAN, !.writes = StoreWrites,
                  !.sessions = MaxUploads]

InitStore == InitDev(StoreEnv) \/ InitSketch(StoreEnvFast)

NextStore ==
  \/ TimePasses
  \/ PostUploadStart
  \/ PostUploadWrite
  \/ PostUploadEnd
  \/ PostUploadAborted
  \/ PostUploadDone
  \/ LoopPass
  \/ FastUploadStart
  \/ FastUploadWrite
  \/ FastUploadEnd
  \/ FastUploadAborted
  \/ FastUploadDone

SpecStore == InitStore /\ [][NextStore]_vars

\* C7: when the end callback of an upload session has closed the file that
\* the session's start callback opened, the blob of the session's name holds
\* exactly the bytes the session's write callbacks stored, in order.
C7_FullReplacement ==
  /\ (http.phase = "ended" /\ http.opened /\ http.closed)
       => (fs.exists /\ fs.data = written)
  /\ (http.phase = "received" /\ http.opened /\ http.closed)
       => fast.files[PatternPath(http.filename)]
            = [exists |-> TRUE, data |-> fast.written]

\* a session of two writes has ended on a flash whose earlier blob could not
\* be removed
C7_Witness ==
  /\ http.phase = "ended" /\ http.opened /\ http.closed
  /\ written = <<1, 2, 3>>
  /\ \E i \in DOMAIN logHistory :
       logHistory[i].operation = "FILE_CLEANUP" /\ logHistory[i].level = "WARNING"

\* ------------------------------------------------------------------------
\* Playback requests of both sketches
\* ------------------------------------------------------------------------
\* the diagnostic firmware with one upload of two frames of one byte, and the
\* play, pause and stop requests
PlayersEnv ==
  [PlayEnv EXCEPT !.times = {1000, 1100},
                  !.metas = {[hasMeta |-> TRUE, meta |-> MetaSpaced]},
                  !.actions = {"play", "pause", "stop"}, !.delays = {}]

\* the FastLED sketch with the patterns its flash holds, and no uploads
PlayersEnvFast ==
  [FastEnv EXCEPT !.tokens = {}, !.sizes = {}, !.frees = {}, !.writes = {},
                  !.fsOk = BOOLEAN, !.sessions = 0]

InitPlayers == InitDev(PlayersEnv) \/ InitSketch(PlayersEnvFast)

NextPlayers ==
  \/ TimePasses
  \/ PostUploadStart
  \/ PostUploadWrite
  \/ PostUploadEnd
  \/ PostUploadDone
  \/ GetLedControl
  \/ LoopPass
  \/ FastPlay
  \/ FastStop
  \/ FastLoop

SpecPlayers == InitPlayers /\ [][NextPlayers]_vars

\* C9 as stated: every play request that is answered with success, in any
\* playback state, leaves the cursor at frame 0 and the scheduler PLAYING.
C9_PlayResetsCursor ==
  [][/\ (lastReq'.ep = "led-control" /\ lastReq'.arg = "play")
          => (currentFrameIndex' = 0 /\ ledPlaying' /\ ~ledPaused')
     /\ (lastReq'.ep = "play" /\ lastReq'.code = 200)
          => (fast'.currentFrame = 0 /\ fast'.playing)]_vars

\* C9: a play request that is answered with success leaves the scheduler
\* PLAYING and the cursor at frame 0, except that the FastLED sketch, asked
\* to play the pattern it is already playing, leaves the cursor where it is.
C9_PlayResetsUnlessAlreadyPlaying ==
  [][/\ (lastReq'.ep = "led-control" /\ lastReq'.arg = "play")
          => (currentFrameIndex' = 0 /\ ledPlaying' /\ ~ledPaused')
     /\ (lastReq'.ep = "play" /\ lastReq'.code = 200)
          => /\ fast'.playing
             /\ \/ fast'.currentFrame = 0
                \/ /\ fast.playing
                   /\ fast.currentPatternPath = PatternPath(lastReq'.arg)
                   /\ fast'.currentFrame = fast.currentFrame]_vars

\* C12: a stop request, in any playback state, leaves the scheduler STOPPED
\* with the cursor at frame 0, and a play request that follows a stop request
\* and is answered with success leaves the cursor at frame 0.
C12_StopResetsCursor ==
  [][/\ (lastReq'.ep = "led-control" /\ lastReq'.arg = "stop")
          => (~ledPlaying' /\ ~ledPaused' /\ currentFrameIndex' = 0)
     /\ lastReq'.ep = "stop"
          => (~fast'.playing /\ fast'.currentFrame = 0)
     /\ (lastReq.ep = "led-control" /\ lastReq.arg = "stop"
         /\ lastReq'.ep = "led-control" /\ lastReq'.arg = "play")
          => currentFrameIndex' = 0
     /\ (lastReq.ep = "stop" /\ lastReq'.ep = "play" /\ lastReq'.code = 200)
          => fast'.currentFrame = 0]_vars

\* the FastLED sketch has answered "already playing" with the cursor past
\* frame 0
C9_Witness ==
  /\ lastReq.ep = "play" /\ lastReq.code = 200
  /\ fast.playing /\ fast.currentFrame > 0

\* ------------------------------------------------------------------------
\* Playback ticks of both sketches
\* ------------------------------------------------------------------------
\* {"frame_delay_ms": 100, "total_frames": 2, "per_chunk_delays":[50,50]}
MetaChunks == <<123, 34, 102, 114, 97, 109, 101, 95, 100, 101, 108, 97, 121, 95, 109, 115, 34, 58, 32, 49, 48, 48, 44, 32, 34, 116, 111, 116, 97, 108, 95, 102, 114, 97, 109, 101, 115, 34, 58, 32, 50, 44, 32, 34, 112, 101, 114, 95, 99, 104, 117, 110, 107, 95, 100, 101, 108, 97, 121, 115, 34, 58, 91, 53, 48, 44, 53, 48, 93, 125>>

\* {"total_frames": 1}
MetaOne == <<123, 34, 116, 111, 116, 97, 108, 95, 102, 114, 97, 109, 101, 115, 34, 58, 32, 49, 125>>

\* a frame one byte longer than the buffer of ledPlaybackTick()
LongFrame == [i \in 1..(FrameBufferSize + 1) |-> i]

\* the diagnostic firmware with one upload of two frames of one byte or of
\* one frame longer than the tick's buffer, a flash whose files may fail to
\* open or to be removed, and play requests, the uptime in steps of the
\* per-chunk delay
TickEnv ==
  [PlayEnv EXCEPT
     !.metas = {[hasMeta |-> TRUE, meta |-> MetaChunks],
                [hasMeta |-> TRUE, meta |-> MetaOne]},
     !.writes = {[buf |-> <<2, 3>>, totalSize |-> 2, n |-> 2],
                 [buf |-> LongFrame, totalSize |-> Len(LongFrame),
                  n |-> Len(LongFrame)]},
     !.keeps = {0}, !.crashes = {TRUE}, !.fsOk = BOOLEAN,
     !.actions = {"play"}, !.delays = {},
     !.blob = Len(LongFrame)]

\* the FastLED sketch with one upload of one frame and play requests
TickEnvFast ==
  [FastEnv EXCEPT !.tokens = {[hasToken |-> TRUE, token |-> UPLOAD_TOKEN]},
                  !.sizes = {0}, !.sessions = MaxUploads]

InitTick == InitDev(TickEnv) \/ InitSketch(TickEnvFast)

NextTick ==
  \/ TimePasses
  \/ PostUploadStart
  \/ PostUploadWrite
  \/ PostUploadEnd
  \/ PostUploadDone
  \/ PostUploadMetadata
  \/ PostDelete
  \/ GetLedControl
  \/ LoopPass
  \/ FastUploadStart
  \/ FastUploadWrite
  \/ FastUploadEnd
  \/ FastUploadDone
  \/ FastPlay
  \/ FastLoop

SpecTick == InitTick /\ [][NextTick]_vars

\* the step is a pass of loop() of the diagnostic firmware that did not
\* restart the device
DiagLoopStep ==
  /\ lastReq'.arg = "loop" /\ fast = FastOff /\ ~lastReq'.body.restarted

\* the step is a pass of loop() of the FastLED sketch
FastLoopStep == lastReq'.arg = "loop" /\ fast # FastOff

\* the pass of loop() of this step put out a frame
Emitted ==
  \E i \in DOMAIN lastReq'.body.shown : lastReq'.body.shown[i].emitted

\* the stored pattern is whole: the blob is the one whose size was recorded,
\* it has frames, and the cursor is on one of them
PatternWhole ==
  /\ fs.exists /\ lastUploadedSize > 0 /\ Len(fs.data) = lastUploadedSize
  /\ totalFrames > 0 /\ totalFrames <= lastUploadedSize
  /\ currentFrameIndex < totalFrames

\* the delay in force for the frame under the cursor
EffectiveDelay ==
  IF ~perChunkDelays.null /\ currentFrameIndex < perChunkDelaysCount
  THEN perChunkDelays.vals[currentFrameIndex + 1]
  ELSE frameDelayMs

\* C14: with a whole pattern stored, a pass of loop() that does not stop
\* playback for a read failure puts out a frame if and only if the scheduler
\* is PLAYING and at least the effective delay (the per-chunk delay of the
\* current frame if there is one, else the global delay) has passed since
\* the last frame.
C14_TickFiresAfterEffectiveDelay ==
  [][(DiagLoopStep /\ PatternWhole /\ ledPlaying' = ledPlaying)
     => (Emitted <=> (/\ ledPlaying /\ ~ledPaused
                      /\ Elapsed(millis, lastFrameTime) >= EffectiveDelay))]_vars

\* the whole frames the pattern file that the FastLED sketch plays holds
FastFrames == SizeOf(fast, fast.playbackFile.path) \div FRAME_BYTES

\* the pass of loop() of this step put out the frame of index k
EmittedFrame(k) ==
  \E i \in DOMAIN lastReq'.body.shown :
     lastReq'.body.shown[i].emitted /\ lastReq'.body.shown[i].index = k

\* C15: the pass of loop() that puts out the last frame of the pattern leaves
\* the cursor at frame 0, and after every step the cursor is 0 or the index
\* of a frame of the pattern.
C15_CursorWraps ==
  [][/\ (DiagLoopStep /\ PatternWhole /\ EmittedFrame(totalFrames - 1))
          => currentFrameIndex' = 0
     /\ fast = FastOff
          => (currentFrameIndex' = 0 \/ currentFrameIndex' < totalFrames')
     /\ (FastLoopStep /\ EmittedFrame(FastFrames - 1))
          => fast'.currentFrame = 0
     /\ (fast # FastOff /\ fast'.playing)
          => (fast'.currentFrame = 0 \/ fast'.currentFrame < FastFrames')]_vars

\* C16: a pass of loop() that finds the scheduler PLAYING with a frame due
\* and puts out no frame (the pattern file is missing, does not open, or the
\* read comes back empty) appends an ERROR to the log and leaves the
\* scheduler not playing.
C16_ReadFailureStops ==
  [][(/\ DiagLoopStep
      /\ ledPlaying /\ ~ledPaused
      /\ Elapsed(millis, lastFrameTime) >= frameDelayMs
      /\ Elapsed(millis, lastFrameTime) >= EffectiveDelay
      /\ ~Emitted)
     => (/\ ~ledPlaying'
         /\ Len(logHistory') > Len(logHistory)
         /\ logHistory'[Len(logHistory')].level = "ERROR")]_vars

\* the bytes of the frame of index k in a file that holds data, the frames
\* being size bytes each
FrameOf(data, k, size) == SubSeq(data, k * size + 1, k * size + size)

\* C17: a pass of loop() that reads the pattern reads exactly the bytes of
\* the frame under the cursor (frame size bytes from cursor * frame size),
\* and never more bytes than its buffer holds; in the diagnostic firmware
\* for a whole stored pattern of any size and frame count, in the FastLED
\* sketch for a pattern file of at least one frame.
C17_ReadsOneFrame ==
  [][/\ (DiagLoopStep /\ PatternWhole)
          => \A i \in DOMAIN lastReq'.body.shown :
               LET r == lastReq'.body.shown[i]
               IN  /\ r.bytes = FrameOf(fs.data, currentFrameIndex,
                                        lastUploadedSize \div totalFrames)
                   /\ Len(r.bytes) <= FrameBufferSize
     /\ (FastLoopStep /\ FastFrames > 0)
          => \A i \in DOMAIN lastReq'.body.shown :
               LET r == lastReq'.body.shown[i]
               IN  /\ r.bytes = FrameOf(fast.files[fast.playbackFile.path].data,
                                        r.index, FRAME_BYTES)
                   /\ Len(r.bytes) <= FrameBufSize]_vars

\* ------------------------------------------------------------------------
\* The diagnostic firmware short of memory
\* ------------------------------------------------------------------------
\* one upload of two bytes and play requests, with the free heap above or
\* below the floor of loop() at each pass, and a flash that keeps none or
\* all of the bytes of a file that was open when the device restarted
HeapEnv ==
  [PlayEnv EXCEPT !.times = {1000}, !.metas = {NoMeta},
                  !.loopHeaps = {20000, 7000}, !.crashes = {TRUE},
                  !.actions = {"play"}, !.delays = {}]

InitHeap == InitDev(HeapEnv)

NextHeap ==
  \/ TimePasses
  \/ PostUploadStart
  \/ PostUploadWrite
  \/ PostUploadEnd
  \/ PostUploadDone
  \/ GetLedControl
  \/ GetFileList
  \/ LoopPass

SpecHeap == InitHeap /\ [][NextHeap]_vars

\* C19: a pass of loop() that reads a free heap below the floor of 8000
\* bytes restarts the device, whether or not an upload or playback is under
\* way, and has appended an entry to the log before it does.
C19_LowHeapLogsAndRestarts ==
  [][(lastReq'.arg = "loop" /\ fast = FastOff /\ lastReq'.body.heap < 8000)
     => (/\ lastReq'.body.restarted
         /\ Len(lastReq'.body.logged) > Len(logHistory))]_vars

\* C20: a file list requested right after the restart that interrupted an
\* upload does not show the partial blob, and no size or digest is recorded
\* for it.
C20_PartialBlobOrphaned ==
  [][(/\ lastReq.arg = "loop" /\ lastReq.body.restarted
      /\ lastReq.body.uploading
      /\ lastReq'.ep = "file-list")
     => (/\ lastReq'.body = <<>>
         /\ lastUploadedSize' = 0 /\ lastUploadedHash' = <<>>)]_vars

\* ------------------------------------------------------------------------
\* The large-pattern firmware listed in README_OTA.md
\* ------------------------------------------------------------------------
LARGE_PATTERN_THRESHOLD == 32768

\* the log calls of its setup(), in order; chunkDir is
\* LittleFS.exists(CHUNK_DIR)
SetupEntriesLarge(wifiOk, chunkDir) ==
  (IF chunkDir THEN <<>> ELSE <<Entry("INFO", "FILESYSTEM", "SETUP", "", 0)>>)
  \o <<Entry("INFO", "WIFI", "INIT", "", 0)>>
  \o (IF wifiOk THEN <<Entry("INFO", "WIFI", "CONNECT", "", 0)>>
      ELSE <<Entry("WARNING", "WIFI", "CONNECT", "", 0),
             Entry("INFO", "WIFI", "AP_MODE", "", 0)>>)
  \o <<Entry("INFO", "CONFIG", "LOAD", "", 0),
       Entry("INFO", "WEBSERVER", "SETUP", "", 0),
       Entry("INFO", "DIAGNOSTIC", "INIT", "", 0),
       Entry("INFO", "SYSTEM", "SETUP", "completed", 0)>>

\* the globals of the large-pattern firmware after its setup()
BootLarge(fs0, secretKey, wifiOk, chunkDir) ==
  LET es == SetupEntriesLarge(wifiOk, chunkDir)
      d  == StoreAll(DiagZero, es)
  IN  [Boot(fs0, secretKey, wifiOk) EXCEPT
         !.diag = [d EXCEPT !.errorCount = 0, !.warningCount = 0,
                            !.infoCount = 1],
         !.logHistory = es]
      @@ LargeZero

\* the globals of the large-pattern firmware now
LargeSt == St @@ large

LargeBecomes(s) ==
  /\ Becomes(s)
  /\ large' = [k \in DOMAIN LargeZero |-> s[k]]

\* ESP.restart() of the large-pattern firmware
RestartLarge(s, e, chunkDir) ==
  [BootLarge(IF s.uploadFile = "open"
             THEN [s.fs EXCEPT !.data = SubSeq(@, 1, Min(e.keep, Len(@)))]
             ELSE s.fs,
             s.secret, e.wifiOk, chunkDir)
     EXCEPT !.sent = s.sent, !.restarted = TRUE, !.logged = s.logHistory]

\* optimizeMemoryForLargePatterns()
optimizeMemoryForLargePatterns(s) ==
  IF ULt(Elapsed(s.millis, s.lastMemoryOptimization), 5000) THEN s
  ELSE LET s1 == IF s.uploadFile # "closed" THEN Close(s) ELSE s
           s2 == IF s1.diag.errorLogCount > 15
                 THEN Log([s1 EXCEPT !.diag.errorLogCount = 10],
                          "INFO", "MEMORY", "OPTIMIZATION", 0)
                 ELSE s1
       IN  Log([s2 EXCEPT !.lastMemoryOptimization = s.millis],
               "INFO", "MEMORY", "OPTIMIZATION", 0)

\* handleFileUpload() of the listing, UPLOAD_FILE_START; parseMetadata() is
\* an empty function there
Large_handleFileUpload_START(s, rq, e) ==
  LET s1 == IF e.totalSize > LARGE_PATTERN_THRESHOLD
            THEN Log([s EXCEPT !.largePatternMode = TRUE],
                     "INFO", "UPLOAD", "LARGE_PATTERN", 0)
            ELSE s
      s2 == IF ~s1.fs.exists THEN s1
            ELSE IF e.removeOk
            THEN Log(Remove(s1), "INFO", "UPLOAD", "FILE_CLEANUP", 0)
            ELSE Log(s1, "WARNING", "UPLOAD", "FILE_CLEANUP", 0)
      s3 == IF e.heap < 10000
            THEN Log(s2, "WARNING", "UPLOAD", "MEMORY_CHECK", 0) ELSE s2
      s4 == Log([s3 EXCEPT !.fs = OpenForWrite(@), !.uploadFile = "open",
                           !.written = <<>>],
                "INFO", "UPLOAD", "FILE_OPEN", 0)
      s5 == IF rq.hasMeta THEN Log(s4, "INFO", "UPLOAD", "METADATA", 0)
            ELSE s4
  IN  IF e.openOk
      THEN [s5 EXCEPT !.uploadInProgress = TRUE, !.uploadStartTime = s.millis]
      ELSE [Log(Close(s3), "ERROR", "UPLOAD", "FILE_CREATION", 2002)
              EXCEPT !.uploadInProgress = FALSE]

\* handleFileUpload() of the listing, UPLOAD_FILE_WRITE
Large_handleFileUpload_WRITE(s, e) ==
  IF s.uploadFile # "closed" /\ s.uploadInProgress
  THEN LET stored == SubSeq(e.buf, 1, e.nWritten)
           s1 == [s EXCEPT !.fs.data = IF s.uploadFile = "open"
                                       THEN @ \o stored ELSE @,
                           !.written = @ \o stored]
           s2 == IF e.nWritten # Len(e.buf)
                 THEN Log(s1, "ERROR", "UPLOAD", "FILE_WRITE", 2003) ELSE s1
           s3 == Log(s2, "INFO", "UPLOAD", "PROGRESS", 0)
       IN  IF e.totalSize > 32768 /\ Len(e.buf) % 4096 = 0
           THEN IF s3.largePatternMode /\ e.heap < 15000
                THEN optimizeMemoryForLargePatterns(s3) ELSE s3
           ELSE s2
  ELSE Log(s, "ERROR", "UPLOAD", "FILE_WRITE", 2004)

\* "hash", what calculateFileHash() of the listing returns
HashStub == <<104, 97, 115, 104>>

\* handleFileUpload() of the listing, UPLOAD_FILE_END; e.loadOk: whether
\* METADATA_FILE exists and opens (loadChunkMetadata())
Large_handleFileUpload_END(s, e) ==
  IF s.uploadFile # "closed" /\ s.uploadInProgress
  THEN LET s1 == Log([Close(s) EXCEPT !.uploadInProgress = FALSE],
                     "INFO", "UPLOAD", "COMPLETE", 0)
           s2 == Log([s1 EXCEPT !.lastUploadedSize = Len(s1.fs.data),
                                !.lastUploadedHash = HashStub,
                                !.lastUploadTime = s1.millis],
                     "INFO", "UPLOAD", "VERIFICATION", 0)
           s3 == IF s2.lastUploadedSize > 50000
                 THEN Log(s2, "WARNING", "UPLOAD", "FILE_SIZE", 0) ELSE s2
       IN  IF ~s1.fs.exists
           THEN Log(s1, "ERROR", "UPLOAD", "FILE_VERIFICATION", 2005)
           ELSE IF s3.largePatternMode /\ e.loadOk
           THEN Log(s3, "INFO", "METADATA", "LOAD", 0)
           ELSE s3
  ELSE Log(s, "ERROR", "UPLOAD", "COMPLETION", 2006)

\* handleFileUpload() of the listing: no token is asked for
Large_handleFileUpload(s, rq, status, e) ==
  IF status = "START" THEN Large_handleFileUpload_START(s, rq, e)
  ELSE IF status = "WRITE" THEN Large_handleFileUpload_WRITE(s, e)
  ELSE IF status = "END" THEN Large_handleFileUpload_END(s, e)
  ELSE s

\* handleUploadSuccess() of the listing
Large_handleUploadSuccess(s) == Send(s, 200, "Upload successful")

\* loop() of the listing after server.handleClient().  Nothing in the
\* listing sets ledPlaying (handleLEDControl() only answers), so the playback
\* branch is never entered.
Large_loop(s, e, chunkDir) ==
  LET s1 == IF s.largePatternMode
               /\ Elapsed(s.millis, s.lastMemoryCheck) > 10000
            THEN [(IF e.heap < 15000
                   THEN optimizeMemoryForLargePatterns(s) ELSE s)
                    EXCEPT !.lastMemoryCheck = s.millis]
            ELSE s
  IN  IF e.heap < 8000
      THEN RestartLarge(Log(s, "WARNING", "MEMORY", "LOW_HEAP", 0), e, chunkDir)
      ELSE IF s1.uploadInProgress
              /\ Elapsed(s1.millis, s1.uploadStartTime) > 60000
      THEN Close([Log(s1, "WARNING", "UPLOAD", "TIMEOUT", 0)
                    EXCEPT !.uploadInProgress = FALSE])
      ELSE s1

\* ---- the large-pattern firmware serving uploads -------------------------
MaxLargeUploads == 2

\* uploads announced as 40000 bytes, by buffers of one byte and empty
\* buffers, with the free heap above or below the 15000 bytes of the
\* mitigation
LargeEnv ==
  [NoEnv EXCEPT !.times = {6000, 12000}, !.headers = {NoHeader},
                !.metas = {NoMeta},
                !.writes = {[buf |-> <<>>, totalSize |-> 40000, n |-> 0],
                            [buf |-> <<1>>, totalSize |-> 40000, n |-> 1]},
                !.startHeaps = {20000}, !.loopHeaps = {20000, 12000},
                !.keeps = {0}, !.fsOk = {TRUE},
                !.sessions = MaxLargeUploads, !.blob = MaxBlobBytes]

LargeServed(ep, s) ==
  /\ LargeBecomes(s)
  /\ lastReq' = Req(ep, FALSE, <<>>, LastSent(s)[1], LastSent(s)[2])
  /\ UNCHANGED <<env, fast>>

\* POST /upload reaches the file part
LargeUploadStart ==
  /\ http.phase = "idle"
  /\ uploads < env.sessions
  /\ \E m \in env.metas, heap \in env.startHeaps, w \in env.writes,
        removeOk \in env.fsOk, openOk \in env.fsOk :
       LET e == [Env0 EXCEPT !.heap = heap, !.removeOk = removeOk,
                             !.openOk = openOk, !.totalSize = w.totalSize]
           s == Large_handleFileUpload(LargeSt, m, "START", e)
       IN  /\ LargeServed("large-upload-start", s)
           /\ http' = [Idle EXCEPT !.phase = "body",
                                   !.opened = (s.uploadFile = "open")]
  /\ uploads' = uploads + 1

\* a buffer of the file part
LargeUploadWrite ==
  /\ http.phase = "body"
  /\ http.writes < MaxWrites
  /\ \E w \in env.writes, heap \in env.loopHeaps :
       LET e == [Env0 EXCEPT !.buf = w.buf, !.nWritten = w.n,
                             !.totalSize = w.totalSize, !.heap = heap]
       IN  /\ Len(fs.data) + w.n <= env.blob
           /\ LargeServed("large-upload-write",
                          Large_handleFileUpload(LargeSt, http, "WRITE", e))
  /\ http' = [http EXCEPT !.writes = @ + 1]
  /\ UNCHANGED uploads

\* the file part ends
LargeUploadEnd ==
  /\ http.phase = "body"
  /\ \E loadOk \in BOOLEAN :
       LargeServed("large-upload-end",
                   Large_handleFileUpload(LargeSt, http, "END",
                                          [Env0 EXCEPT !.loadOk = loadOk]))
  /\ http' = [http EXCEPT !.phase = "ended"]
  /\ UNCHANGED uploads

\* the request is read to its end
LargeUploadDone ==
  /\ http.phase = "ended"
  /\ LargeServed("large-upload-done", Large_handleUploadSuccess(LargeSt))
  /\ http' = Idle
  /\ UNCHANGED uploads

\* one pass of loop() that serves no request
LargeLoopPass ==
  /\ \E heap \in env.loopHeaps, keep \in env.keeps, chunkDir \in BOOLEAN :
       LET s == Large_loop(LargeSt, [Env0 EXCEPT !.heap = heap, !.keep = keep],
                           chunkDir)
       IN  /\ LargeBecomes(s)
           /\ http' = IF s.restarted THEN Idle ELSE http
           /\ lastReq' = LoopReport(heap, s)
  /\ UNCHANGED <<uploads, env, fast>>

InitLarge ==
  /\ \E fs0 \in OldBlobs, chunkDir \in BOOLEAN :
       /\ StateIs(BootLarge(fs0, ChangeThisSecret, TRUE, chunkDir))
       /\ large = LargeZero
  /\ http = Idle
  /\ uploads = 0
  /\ lastReq = NoReq
  /\ env = LargeEnv
  /\ fast = FastOff

NextLarge ==
  \/ TimePasses
  \/ LargeUploadStart
  \/ LargeUploadWrite
  \/ LargeUploadEnd
  \/ LargeUploadDone
  \/ LargeLoopPass

SpecLarge == InitLarge /\ [][NextLarge]_vars

\* the step ran the low-memory mitigation to its end
Optimized ==
  \E i \in (Len(logHistory) + 1)..Len(logHistory') :
     logHistory'[i].component = "MEMORY"
     /\ logHistory'[i].operation = "OPTIMIZATION"

\* the entries of the log array that count, oldest first
LogArray(d) ==
  [i \in 1..Min(d.errorLogCount, MAX_ERROR_LOG_ENTRIES) |-> d.errorLog[i - 1]]

\* C21: the low-memory mitigation leaves the file handle of an upload in
\* progress open, and the entries the log holds after it are the most recent
\* ones of all entries logged: none is kept while a newer one is dropped.
C21_MitigationNonDestructive ==
  [][Optimized
     => (/\ (uploadInProgress /\ uploadFile = "open") => uploadFile' = "open"
         /\ LogArray(diag') = LastN(logHistory', Len(LogArray(diag'))))]_vars

\* ------------------------------------------------------------------------
\* The FastLED firmware and its pattern index
\* ------------------------------------------------------------------------
\* POST /upload-chunked?token=...&chunk_name=...: the file part begins
FastChunkStart ==
  /\ http.phase = "idle"
  /\ uploads < env.sessions
  /\ \E t \in env.tokens, name \in env.names, size \in env.sizes,
        free \in env.frees, removeOk \in env.fsOk, openOk \in env.fsOk :
       LET rq == [hasToken |-> t.hasToken, token |-> t.token,
                  filename |-> "", chunkName |-> name]
           e  == [Env0 EXCEPT !.totalSize = size, !.free = free,
                              !.removeOk = removeOk, !.openOk = openOk]
           f  == handleUploadChunked(fast, rq, "START", e)
       IN  /\ FastServed("chunk-start", rq, f)
           /\ http' = [phase |-> "chunk-receiving", hasToken |-> t.hasToken,
                       token |-> t.token, filename |-> "", chunkName |-> name,
                       opened |-> (f.sent = <<>> /\ f.chunkOut.open),
                       writes |-> 0]
  /\ uploads' = uploads + 1

\* a buffer of the chunk arrives
FastChunkWrite ==
  /\ http.phase = "chunk-receiving"
  /\ http.writes < MaxWrites
  /\ \E w \in env.writes :
       FastServed("chunk-write", http,
                  handleUploadChunked(fast, http, "WRITE",
                                      [Env0 EXCEPT !.buf = w.buf,
                                                   !.nWritten = w.n]))
  /\ http' = [http EXCEPT !.writes = @ + 1]
  /\ UNCHANGED uploads

\* the chunk ends
FastChunkEnd ==
  /\ http.phase = "chunk-receiving"
  /\ \E openOk \in env.fsOk, saveOk \in env.fsOk :
       FastServed("chunk-end", http,
                  handleUploadChunked(fast, http, "END",
                                      [Env0 EXCEPT !.openOk = openOk,
                                                   !.saveOk = saveOk]))
  /\ http' = [http EXCEPT !.phase = "chunk-received"]
  /\ UNCHANGED uploads

\* the request is read to its end: the handler of POST /upload-chunked,
\* server.send(200)
FastChunkDone ==
  /\ http.phase = "chunk-received"
  /\ FastServed("chunk-done", http, Send(fast, 200, ""))
  /\ http' = Idle
  /\ UNCHANGED uploads

\* POST /set-metadata?token=...
FastSetMetadata ==
  /\ http.phase = "idle"
  /\ \E t \in env.tokens, b \in env.bodies, saveOk \in env.fsOk :
       LET rq == [hasToken |-> t.hasToken, token |-> t.token,
                  method |-> "POST", body |-> b]
           f  == handleSetMetadata(fast, rq, [Env0 EXCEPT !.saveOk = saveOk])
       IN  /\ fast' = [f EXCEPT !.sent = <<>>]
           /\ lastReq' = [Req("set-metadata", t.hasToken, t.token,
                              LastSent(f)[1], LastSent(f)[2])
                            EXCEPT !.arg = b]
           /\ UNCHANGED <<diagVars, env, large>>
  /\ UNCHANGED <<http, uploads>>

\* the sketch is powered off and on again while it receives no upload:
\* setup() runs on the flash as it is
FastRestart ==
  /\ http.phase = "idle"
  /\ env.bodies # {}
  /\ fast' = FastBoot(fast.files, fast.metadataJson)
  /\ lastReq' = [NoReq EXCEPT !.arg = "restart"]
  /\ UNCHANGED <<diagVars, env, http, uploads, large>>

\* a body of /set-metadata: {"file": file} with "frames" and "delay" or
\* without them
Body(file, hasFrames, frames, hasDelay, delay) ==
  [empty |-> FALSE, valid |-> TRUE, hasFile |-> TRUE, file |-> file,
   hasFrames |-> hasFrames, frames |-> frames,
   hasDelay |-> hasDelay, delay |-> delay]

\* a body that is no JSON
BadBody == [Body("", FALSE, 0, FALSE, 0) EXCEPT !.valid = FALSE,
                                                !.hasFile = FALSE]

\* a client that holds the token and uploads patterns of one frame whole or
\* as chunks, sets their metadata and plays them
IndexEnv ==
  [FastEnv EXCEPT
     !.times = {1100},
     !.tokens = {[hasToken |-> TRUE, token |-> UPLOAD_TOKEN]},
     !.sizes = {0},
     !.bodies = {Body("a.bin", FALSE, 0, FALSE, 0),
                 Body("a.bin", TRUE, 2, TRUE, 50), BadBody},
     !.sessions = MaxFastUploads]

InitIndex == InitSketch(IndexEnv)

NextIndex ==
  \/ TimePasses
  \/ FastUploadStart
  \/ FastUploadWrite
  \/ FastUploadEnd
  \/ FastUploadDone
  \/ FastChunkStart
  \/ FastChunkWrite
  \/ FastChunkEnd
  \/ FastChunkDone
  \/ FastSetMetadata
  \/ FastPlay
  \/ FastLoop
  \/ FastRestart

SpecIndex == InitIndex /\ [][NextIndex]_vars

\* the frame counts of the entries of a pattern index, added up
RECURSIVE SumFrames(_)
SumFrames(patterns) ==
  IF DOMAIN patterns = {} THEN 0
  ELSE LET n == CHOOSE x \in DOMAIN patterns : TRUE
       IN  patterns[n].frames
           + SumFrames([x \in DOMAIN patterns \ {n} |-> patterns[x]])

\* every pattern file on the flash has an entry in the index, with the frame
\* count its size gives, and the index has no other entry
IndexMatchesFlash ==
  /\ ~fast.metadataDoc.null /\ fast.metadataDoc.hasPatterns
  /\ \A name \in {"a.bin", "b.bin"} :
       IF fast.files[PatternPath(name)].exists
       THEN /\ name \in DOMAIN fast.metadataDoc.patterns
            /\ fast.metadataDoc.patterns[name].frames
                 = Len(fast.files[PatternPath(name)].data) \div FRAME_BYTES
       ELSE name \notin DOMAIN fast.metadataDoc.patterns

\* C22: once a pattern has been sent as chunks and a play request for it is
\* answered, the frame count the player holds for the pattern is the sum of
\* the frame counts recorded for its chunks.
C22_ChunkFramesSumToTotal ==
  (/\ lastReq.ep = "play" /\ lastReq.code = 200
   /\ IndexMatchesFlash)
    => fast.totalFrames = SumFrames(fast.metadataDoc.patterns)

\* the last request recorded metadata for name without a frame count
RecordedWithoutFrames(name) ==
  /\ lastReq.ep = "set-metadata" /\ lastReq.code = 200
  /\ lastReq.arg.file = name /\ ~lastReq.arg.hasFrames

\* the index the play request loaded has no entry for name
NoEntryAtPlay(name) ==
  \/ fast'.metadataDoc.null
  \/ ~fast'.metadataDoc.hasPatterns
  \/ name \notin DOMAIN fast'.metadataDoc.patterns

\* C23: a play request that starts a pattern whose metadata was just
\* recorded without a frame count, or that has no entry in the index, sets
\* the frame count to the size of the file divided by the frame size.
C23_FramesDefaultToSize ==
  [][(/\ lastReq'.ep = "play" /\ lastReq'.code = 200 /\ ~fast.playing
      /\ (RecordedWithoutFrames(lastReq'.arg) \/ NoEntryAtPlay(lastReq'.arg)))
     => fast'.totalFrames
          = Len(fast.files[PatternPath(lastReq'.arg)].data) \div FRAME_BYTES]_vars

\* metadata.json holds a descriptor for name
Persisted(f, name) ==
  /\ f.metadataJson.exists
  /\ ~f.metadataJson.doc.null /\ f.metadataJson.doc.hasPatterns
  /\ name \in DOMAIN f.metadataJson.doc.patterns

\* C24: when the sketch restarts right after an upload that stored its file,
\* the index it loads holds the descriptor of that file, with its size and
\* the frame count and delay recorded at the upload; and no step removes the
\* descriptor of a pattern from metadata.json, so that it is there at any
\* later restart as well.
C24_WriteThrough ==
  [][/\ (/\ lastReq.ep = "upload-done" /\ lastReq.code = 200
         /\ fast.files[PatternPath(fast.filename)].exists
         /\ lastReq'.ep = "none" /\ lastReq'.arg = "restart")
          => (/\ ~fast'.metadataDoc.null /\ fast'.metadataDoc.hasPatterns
              /\ fast.filename \in DOMAIN fast'.metadataDoc.patterns
              /\ fast'.metadataDoc.patterns[fast.filename].size
                   = Len(fast.files[PatternPath(fast.filename)].data))
     /\ \A name \in {"a.bin", "b.bin"} :
          Persisted(fast, name) => Persisted(fast', name)]_vars

\* ------------------------------------------------------------------------
\* The diagnostic firmware receiving metadata
\* ------------------------------------------------------------------------
\* {"frame_delay_ms": 7, "total_frames": 3
\* a body cut off inside its second member
MetaTruncated ==
  <<123, 34, 102, 114, 97, 109, 101, 95, 100, 101, 108, 97, 121, 95, 109, 115, 34, 58, 32, 55, 44, 32, 34, 116, 111, 116, 97, 108, 95, 102, 114, 97, 109, 101, 115, 34, 58, 32, 51>>

\* {"per_chunk_delays": [20
\* a body cut off inside the list
MetaOpenList ==
  <<123, 34, 112, 101, 114, 95, 99, 104, 117, 110, 107, 95, 100, 101, 108, 97, 121, 115, 34, 58, 32, 91, 50, 48>>

\* {"frame_delay_ms":40,"total_frames":3,"per_chunk_delays":[]}
\* a body without spaces, with an empty list
MetaCompact ==
  <<123, 34, 102, 114, 97, 109, 101, 95, 100, 101, 108, 97, 121, 95, 109, 115, 34, 58, 52, 48, 44, 34, 116, 111, 116, 97, 108, 95, 102, 114, 97, 109, 101, 115, 34, 58, 51, 44, 34, 112, 101, 114, 95, 99, 104, 117, 110, 107, 95, 100, 101, 108, 97, 121, 115, 34, 58, 91, 93, 125>>

\* metadata uploads with well-formed and with cut-off bodies, and status
\* requests
MetaEnv ==
  [PlayEnv EXCEPT
     !.times = {1000},
     !.metas = {[hasMeta |-> TRUE, meta |-> MetaChunks],
                [hasMeta |-> TRUE, meta |-> MetaCompact],
                [hasMeta |-> TRUE, meta |-> MetaTruncated],
                [hasMeta |-> TRUE, meta |-> MetaOpenList], NoMeta},
     !.keeps = {0}, !.crashes = {TRUE},
     !.actions = {"status", "play"}, !.delays = {}]

InitMeta == InitDev(MetaEnv)

NextMeta ==
  \/ TimePasses
  \/ PostUploadStart
  \/ PostUploadWrite
  \/ PostUploadEnd
  \/ PostUploadDone
  \/ PostUploadMetadata
  \/ GetLedControl
  \/ LoopPass

SpecMeta == InitMeta /\ [][NextMeta]_vars

\* C25: a metadata upload by a holder of the token whose body is not a JSON
\* object is answered 400 and leaves the frame delay, the frame count and the
\* per-chunk delays as they are.
C25_MalformedMetadataRejected ==
  [][(lastReq'.ep = "upload-metadata" /\ lastReq'.arg = "malformed"
      /\ checkUploadToken(lastReq'.hasHdr, lastReq'.hdr, secret, millis))
     => (/\ lastReq'.code = 400
         /\ UNCHANGED <<frameDelayMs, totalFrames, perChunkDelays,
                        perChunkDelaysCount>>)]_vars

\* ------------------------------------------------------------------------
\* The FastLED firmware and the names of uploads
\* ------------------------------------------------------------------------
\* the components, between the slashes, of the names the clients of this
\* model send as upload.filename and as the chunk_name argument
NameParts ==
  ("a.bin" :> <<"a.bin">>) @@ ("../c.bin" :> <<"..", "c.bin">>)

\* the components of String(PATTERNS_DIR) + "/" + name
PathParts(name) == <<"patterns">> \o NameParts[name]

\* the directory LittleFS is in after it walked parts from at: ".." leaves
\* the directory entered last, and stays at the root
RECURSIVE Walk(_, _)
Walk(at, parts) ==
  IF parts = <<>> THEN at
  ELSE IF Head(parts) = ".."
  THEN Walk(IF at = <<>> THEN at ELSE SubSeq(at, 1, Len(at) - 1), Tail(parts))
  ELSE Walk(Append(at, Head(parts)), Tail(parts))

\* the file String(PATTERNS_DIR) + "/" + name is a file below PATTERNS_DIR
InsidePatterns(name) ==
  LET file == Walk(<<>>, PathParts(name))
  IN  Len(file) >= 2 /\ file[1] = "patterns"

\* a client that holds the token and names its uploads as it likes
NamesEnv ==
  [FastEnv EXCEPT
     !.times = {1100},
     !.tokens = {[hasToken |-> TRUE, token |-> UPLOAD_TOKEN]},
     !.names = DOMAIN NameParts,
     !.sizes = {0}]

InitNames ==
  /\ StateIs(Boot(NoFile, ChangeThisSecret, TRUE))
  /\ http = Idle
  /\ uploads = 0
  /\ lastReq = NoReq
  /\ env = NamesEnv
  /\ large = LargeZero
  /\ \E meta0 \in OldMetadata :
       fast = FastBoot([n \in {PatternPath(x) : x \in DOMAIN NameParts}
                          |-> NoFile], meta0)

NextNames ==
  \/ TimePasses
  \/ FastUploadStart
  \/ FastUploadWrite
  \/ FastUploadEnd
  \/ FastUploadDone
  \/ FastChunkStart
  \/ FastChunkWrite
  \/ FastChunkEnd
  \/ FastChunkDone
  \/ FastPlay
  \/ FastLoop

SpecNames == InitNames /\ [][NextNames]_vars

\* C27: whatever file name or chunk name the client sends, the file an
\* upload writes is a file below the patterns directory.
C27_UploadPathInsideNamespace ==
  /\ fast.out.open => InsidePatterns(fast.filename)
  /\ fast.chunkOut.open => InsidePatterns(fast.chunkName)


\* ------------------------------------------------------------------------
\* The diagnostic firmware playing while it receives
\* ------------------------------------------------------------------------
MaxOverlapUploads == 2

\* a client that holds the token, uploads a pattern of two frames, plays it
\* and uploads again, going away inside the file part or not
OverlapEnv ==
  [PlayEnv EXCEPT
     !.times = {1000, 1100},
     !.metas = {[hasMeta |-> TRUE, meta |-> MetaSpaced]},
     !.keeps = {0}, !.crashes = {TRUE},
     !.actions = {"play"}, !.delays = {},
     !.sessions = MaxOverlapUploads]

InitOverlap == InitDev(OverlapEnv)

NextOverlap ==
  \/ TimePasses
  \/ PostUploadStart
  \/ PostUploadWrite
  \/ PostUploadEnd
  \/ PostUploadAborted
  \/ PostUploadDone
  \/ GetLedControl
  \/ LoopPass

SpecOverlap == InitOverlap /\ [][NextOverlap]_vars

\* C28: a pass of loop() that finds an upload in progress with its file open
\* reads no frame of the pattern.
C28_NoTickDuringUpload ==
  [][(/\ lastReq'.ep = "none" /\ lastReq'.arg = "loop"
      /\ lastReq'.body.uploading)
     => lastReq'.body.shown = <<>>]_vars


\* ------------------------------------------------------------------------
\* The diagnostic firmware receiving while the token ages
\* ------------------------------------------------------------------------
\* an upload by a client that holds the token of second 1, with the uptime
\* inside the token's window and past it
ExpiryEnv ==
  [UploadEnv EXCEPT
     !.times = {1000, 92000},
     !.headers = {WithToken},
     !.metas = {NoMeta},
     !.fsOk = {TRUE}, !.resets = {}]

InitExpiry == InitDev(ExpiryEnv)

NextExpiry ==
  \/ TimePasses
  \/ PostUploadStart
  \/ PostUploadWrite
  \/ PostUploadEnd
  \/ PostUploadDone
  \/ LoopPass

SpecExpiry == InitExpiry /\ [][NextExpiry]_vars

\* C29: no write callback and no end callback of an upload whose start
\* callback passed the token gate and opened the file is refused with 401.
C29_TokenCheckedOncePerUpload ==
  [][(lastReq'.ep \in {"upload-write", "upload-end"} /\ http.opened)
     => lastReq'.code # 401]_vars


\* what the well-formed bodies of the metadata uploads of this model say:
\* frame_delay_ms, total_frames and per_chunk_delays
MetaSays ==
  (MetaChunks :> [delay |-> 100, frames |-> 2, delays |-> <<50, 50>>])
  @@ (MetaCompact :> [delay |-> 40, frames |-> 3, delays |-> <<>>])

\* the device holds what a body says
Holds(says) ==
  /\ frameDelayMs = says.delay
  /\ totalFrames = says.frames
  /\ perChunkDelaysCount = Len(says.delays)
  /\ perChunkDelays.vals = says.delays

\* C30: after a metadata upload with a JSON object answered 200, the frame
\* delay and the frame count are those of a body the client sends, and the
\* per-chunk delays are the elements of its list in order, none for an empty
\* list.
C30_MetadataStoredAsSent ==
  [][(/\ lastReq'.ep = "upload-metadata" /\ lastReq'.code = 200
      /\ lastReq'.arg = "")
     => \E m \in env.metas :
          m.hasMeta /\ m.meta \in DOMAIN MetaSays /\ Holds(MetaSays[m.meta])']_vars

\* ------------------------------------------------------------------------
\* The error log and its count
\* ------------------------------------------------------------------------
\* C31: the entry count the error-log query iterates over never exceeds
\* MAX_ERROR_LOG_ENTRIES, whatever the number of log calls.
C31_LogCountWithinArray == diag.errorLogCount <= MAX_ERROR_LOG_ENTRIES

\* ------------------------------------------------------------------------
\* The divisor and the cursor of the playback tick
\* ------------------------------------------------------------------------
\* C32: a pass of loop() whose tick got as far as the frame size (it put out
\* a frame, or the division reset the device) found totalFrames positive.
C32_DivisorPositive ==
  [][(/\ lastReq'.ep = "none" /\ lastReq'.arg = "loop"
      /\ (lastReq'.body.shown # <<>> \/ lastReq'.body.restarted))
     => totalFrames > 0]_vars

\* C33: whenever totalFrames is positive, the cursor is below it.
C33_CursorBelowTotal ==
  totalFrames > 0 => currentFrameIndex < totalFrames

\* ------------------------------------------------------------------------
\* The frame delay between set_delay requests and metadata uploads
\* ------------------------------------------------------------------------
\* {"frame_delay_ms": 5}
MetaDelay5 == <<123, 34, 102, 114, 97, 109, 101, 95, 100, 101, 108, 97, 121, 95, 109, 115, 34, 58, 32, 53, 125>>

\* a client that holds the token, sets the delay and uploads metadata with a
\* delay inside the range of set_delay and below it
DelayEnv ==
  [PlayEnv EXCEPT
     !.metas = {[hasMeta |-> TRUE, meta |-> MetaSpaced],
                [hasMeta |-> TRUE, meta |-> MetaDelay5]},
     !.keeps = {0}, !.crashes = {TRUE},
     !.actions = {"set_delay", "play"}]

InitDelay == InitDev(DelayEnv)

SpecDelay == InitDelay /\ [][NextPlay]_vars

\* constrain(frameDelayMs, 10, 10000) leaves the delay as it is
DelayInRange(d) == d >= 10 /\ d <= 10000

\* C34: a set_delay request leaves the frame delay within 10..10000 ms, and
\* the step that follows a set_delay request leaves it there as well.
C34_DelayStaysInRange ==
  [][/\ (lastReq'.ep = "led-control" /\ lastReq'.arg = "set_delay")
          => DelayInRange(frameDelayMs')
     /\ (lastReq.ep = "led-control" /\ lastReq.arg = "set_delay")
          => DelayInRange(frameDelayMs')]_vars

\* ------------------------------------------------------------------------
\* The upload flag, its file handle and the recorded size
\* ------------------------------------------------------------------------
\* uploads by a client that holds the token, with writes stored in part, on
\* a flash whose files may fail to be removed or opened, with the
\* uptime inside and past the upload timeouts
FlagEnv ==
  [UploadEnv EXCEPT
     !.headers = {WithToken},
     !.metas = {NoMeta},
     !.writes = {[buf |-> <<2, 3>>, totalSize |-> 3, n |-> 1]},
     !.resets = {"filesystem"}]

InitFlag == InitDev(FlagEnv)

SpecFlag == InitFlag /\ [][NextUpload]_vars

\* C35: between handler invocations, uploadInProgress implies that the
\* handle uploadFile is open.
C35_InProgressImpliesOpen == uploadInProgress => uploadFile # "closed"

\* an upload is in progress after a write callback that stored a buffer
C35_Witness ==
  /\ lastReq.ep = "upload-write" /\ lastReq.code = 0
  /\ uploadInProgress /\ uploadFile = "open" /\ written # <<>>

\* C36: whenever no upload is in progress, the recorded size of the last
\* upload is 0 or is the size of the stored blob.
C36_RecordedSizeMatchesBlob ==
  ~uploadInProgress
    => (lastUploadedSize = 0
        \/ (fs.exists /\ lastUploadedSize = Len(fs.data)))

\* ------------------------------------------------------------------------
\* The pattern index and the entries of other patterns
\* ------------------------------------------------------------------------
\* the entries of a pattern index but that of name
EntriesExcept(doc, name) ==
  [n \in DOMAIN doc.patterns \ {name} |-> doc.patterns[n]]

\* C37: the end of an upload and the end of a chunk upload leave the index
\* entries of every other pattern and chunk as they are.
C37_OtherEntriesKept ==
  [][/\ (lastReq'.ep = "upload-end" /\ lastReq'.code = 200)
          => EntriesExcept(fast'.metadataDoc, fast.filename)
               = EntriesExcept(fast.metadataDoc, fast.filename)
     /\ (lastReq'.ep = "chunk-end" /\ lastReq'.code = 200)
          => EntriesExcept(fast'.metadataDoc, fast.chunkName)
               = EntriesExcept(fast.metadataDoc, fast.chunkName)]_vars

\* ------------------------------------------------------------------------
\* Token verification and the requests made before it

\* the issued_at_seconds verify_upload_token reads from a header
TokenTs(hdr) == ToInt(SubstringFrom(hdr, IndexOfChar(hdr, Colon) + 1))

\* the header's token is at most TOKEN_TTL_SECONDS old at uptime nowMs
AgeWithinTtl(hdr, nowMs) == (nowMs \div 1000) - TokenTs(hdr) <= TOKEN_TTL_SECONDS

\* what the call recorded in r answers for the same header at uptime nowMs
AnswerAt(r, secretKey, nowMs) ==
  IF r.ep = "verify" THEN verify_upload_token(r.hdr, secretKey, nowMs)
  ELSE checkUploadToken(r.hasHdr, r.hdr, secretKey, nowMs)

\* C38: a call of verify_upload_token or checkUploadToken changes no state of
\* the device, and a header that was accepted at an earlier uptime is accepted
\* by the call as long as its token is at most TOKEN_TTL_SECONDS old,
\* whatever calls were made before.
C38_VerificationKeepsNoState ==
  [][lastReq'.ep \in {"verify", "check"}
       => /\ UNCHANGED <<millis, secret, diag, logHistory, devVars>>
          /\ \A t1 \in TokenTimePoints :
               (/\ t1 <= millis'
                /\ AnswerAt(lastReq', secret', t1)
                /\ AgeWithinTtl(lastReq'.hdr, millis'))
               => lastReq'.code = 200]_vars

C38_Witness ==
  /\ lastReq.ep = "verify" /\ secret # <<>>
  /\ lastReq.hdr = issue(secret, 1000)
  /\ NowSec = 1000 + TOKEN_TTL_SECONDS
  /\ verify_upload_token(lastReq.hdr, secret, 1000 * 1000)
  /\ lastReq.code = 200

\* ------------------------------------------------------------------------
\* The diagnostic firmware and the uploads that do not end
\* ------------------------------------------------------------------------
\* a client that holds the token of second 1 and starts uploads while the
\* token is good; its later callbacks come in time, come after the token has
\* expired, or do not come
StuckEnv ==
  [ExpiryEnv EXCEPT
     !.times = {1000, 30000, 92000},
     !.writes = {[buf |-> <<2, 3>>, totalSize |-> 3, n |-> 1]}]

InitStuck == InitDev(StuckEnv)

NextStuck ==
  \/ TimePasses
  \/ PostUploadStart
  \/ PostUploadWrite
  \/ PostUploadEnd
  \/ PostUploadAborted
  \/ PostUploadDone
  \/ LoopPass

\* loop() is called again and again and millis() goes on; no request has to
\* come
SpecStuck ==
  InitStuck /\ [][NextStuck]_vars /\ WF_vars(LoopPass) /\ WF_vars(TimePasses)

\* C39: an upload that has set uploadInProgress is followed by a state in
\* which uploadInProgress is false, whether or not its write and end
\* callbacks come and pass the token gate.
C39_UploadFlagCleared ==
  uploadInProgress ~> ~uploadInProgress

C39_Witness ==
  /\ lastReq.ep = "none" /\ lastReq.arg = "loop"
  /\ http.phase = "body" /\ http.opened
  /\ ~uploadInProgress /\ uploadFile = "closed"
  /\ Elapsed(millis, uploadStartTime) > 60000

=============================================================================
